---- MODULE Spec2Model ----
(***************************************************************************)
(* Verification model of the vegetation detector: the adaptive learning    *)
(* system (src/src/adaptive_learning.py) and the multi-method detection    *)
(* engine (src/src/detector.py).                                           *)
(*                                                                         *)
(* Real-valued quantities are fixed-point integers: adaptive parameters in *)
(* units of 1/ParamScale, confidences in units of 1/ConfScale, coverages   *)
(* in percent.  Results of the image library (colour statistics, texture   *)
(* responses, the network's prediction) are inputs of the model.           *)
(***************************************************************************)
EXTENDS Integers, Sequences, FiniteSets, TLC

(***************************************************************************)
(* Bounds of the model.                                                    *)
(***************************************************************************)
\* learn_from_example calls of one run when every call teaches the same example
MaxLearn == 125
\* learn_from_example calls of one run when the examples are mixed freely
MaxFree == 2
\* process restarts (a new AdaptiveLearningSystem built from the file on disk)
MaxRestarts == 1

(***************************************************************************)
(* Program constants of the adaptive learning system.                      *)
(***************************************************************************)
ParamScale == 10000
\* _prune_knowledge_base(max_examples=100)
max_examples == 100
\* adaptive_params['learning_rate'] = 0.05
learning_rate == 500

\* exact integer arithmetic on products that do not fit a machine word: the
\* quotient and remainder of a * b by c, and the comparison a * b > c * d
RECURSIVE DivMod(_, _, _)
DivMod(a, b, c) ==
    IF b = 0 THEN [quot |-> 0, rem |-> 0]
    ELSE LET half  == DivMod(a, b \div 2, c)
             twice == 2 * half.rem + (IF b % 2 = 1 THEN a % c ELSE 0)
         IN  [quot |-> 2 * half.quot + (IF b % 2 = 1 THEN a \div c ELSE 0) + twice \div c,
              rem  |-> twice % c]

MulDiv(a, b, c) == DivMod(a, b, c).quot

Exceeds(a, b, c, d) ==
    LET r == DivMod(a, b, c) IN r.quot > d \/ (r.quot = d /\ r.rem > 0)

Min(a, b) == IF a < b THEN a ELSE b
Max(a, b) == IF a > b THEN a ELSE b
\* np.clip
Clip(x, lo, hi) == Max(lo, Min(x, hi))

Abs(x) == IF x < 0 THEN -x ELSE x

RECURSIVE SumSeq(_)
SumSeq(q) == IF q = <<>> THEN 0 ELSE Head(q) + SumSeq(Tail(q))

VARIABLES
    \* ---- adaptive learning system ----
    knowledge_file,     \* the knowledge-base file on disk
    knowledge_base,     \* self.knowledge_base
    adaptive_params,    \* self.adaptive_params
    stats,              \* self.stats
    now,                \* the wall clock read by datetime.now()
    env,                \* the run's environment: disk writable, clock ticking, workload
    outcome,            \* how the last call on the learning system ended
    calls,              \* learn_from_example calls so far, over all processes
    restarts            \* process restarts so far

learnVars == <<knowledge_file, knowledge_base, adaptive_params, stats, now, env,
               outcome, calls, restarts>>

VARIABLES
    \* ---- grass detector ----
    realtime_enabled,   \* self.realtime_params['enabled']
    precision_enabled,  \* self.precision_params['enabled']
    grass_color_ranges, \* self.grass_color_ranges
    model_available,    \* HAS_TENSORFLOW and self.is_model_loaded
    last,               \* the last call on the detector and what it returned
    repeated            \* the mask of the call before, when the last call repeated it

detVars == <<realtime_enabled, precision_enabled, grass_color_ranges, model_available,
             last, repeated>>

VARIABLES
    \* ---- weighting of two methods ----
    weighed_stats,      \* the statistics handed to _calculate_adaptive_weights
    returned_weights    \* the weights it returned

weightVars == <<weighed_stats, returned_weights>>

VARIABLES
    \* ---- the channels of the texture classifier ----
    texture_input,      \* realtime_params' skip flags and one pixel's four normalised channels
    texture_output      \* the channel weights and the pixel's combined_texture

texVars == <<texture_input, texture_output>>

VARIABLES
    \* ---- the weighted fusion of masks ----
    fusion_input,       \* the mode, the masks and the weights handed to _weighted_mask_combination
    fusion_output       \* the mask it returned

fusVars == <<fusion_input, fusion_output>>

VARIABLES
    \* ---- the edge refinement on one row of pixels ----
    refine_input,       \* the row's mask and the row's pixels in the green range
    refine_output       \* the refinement area and the refined mask

refVars == <<refine_input, refine_output>>

VARIABLES
    \* ---- export and import of the learned knowledge ----
    exp_files,          \* the files on disk, by name
    exp_knowledge_file, \* adaptive_learning.knowledge_file: the name the system saves to
    exp_knowledge_base, \* adaptive_learning.knowledge_base
    exp_last            \* the last export or import call and what it returned

expVars == <<exp_files, exp_knowledge_file, exp_knowledge_base, exp_last>>

VARIABLES
    \* ---- a video job of web/api.py next to the event loop ----
    video_job,          \* the worker thread: its quality mode, its position, its frame_count
    request,            \* the event-loop thread: the mode switch it is in the middle of
    frame_modes         \* the mode flags each detection of the job found

jobVars == <<video_job, request, frame_modes>>

restVars == <<weightVars, texVars, fusVars, refVars, expVars, jobVars>>

VARIABLES
    \* ---- one WebSocket connection of web/api.py ----
    ws_endpoint,        \* "webcam" (websocket_webcam) or "people" (websocket_people_webcam)
    ws_inbox,           \* messages the client sent that ws.receive_text() has not returned yet
    ws_sent,            \* how many messages the client has sent
    ws_pc,              \* where the handler is: "receive", "inference" or "closed"
    ws_config,          \* the handler's method and quality settings
    _processing,        \* the skip-if-busy flag of websocket_people_webcam
    ws_frame,           \* the frame the inference in flight works on
    ws_results          \* the frames whose result was sent back, in order

wsVars == <<ws_endpoint, ws_inbox, ws_sent, ws_pc, ws_config, _processing, ws_frame,
            ws_results>>

VARIABLES
    \* ---- the continuous webcam loop of main.py ----
    latest_frame,       \* latest_frame[0]: the slot, 0 for None
    frame_lock,         \* the thread holding frame_lock, or "free"
    stop_event,         \* stop_event.is_set()
    camera,             \* frames the camera has delivered; whether it still delivers
    capture_pc,         \* where capture_thread is
    capture_frame,      \* the frame capture_thread read from the camera
    loop_pc,            \* where the processing loop is
    frame,              \* the frame the processing loop took from the slot
    shown               \* the frames detected and shown, in order

camVars == <<latest_frame, frame_lock, stop_event, camera, capture_pc, capture_frame,
             loop_pc, frame, shown>>

VARIABLES
    \* ---- the two learning systems of a TrainingSystem ----
    learning_system,    \* TrainingSystem.learning_system; the detector's own is above
    persisted           \* region_info of the examples a learning call wrote to the file

ownVars == <<learning_system, persisted>>

otherVars == <<wsVars, camVars, ownVars>>

(***************************************************************************)
(* Labeled examples.  The image and mask of an example enter the learning  *)
(* system only through the feature vector, so an example is given by the   *)
(* measurements _extract_learning_features takes from it, and the         *)
(* region_info its caller attaches.                                        *)
(***************************************************************************)
Example(veg, empty, hue, cvar, tvar) ==
    [is_vegetation |-> veg, empty_image |-> FALSE, mask_empty |-> empty,
     mean_hue |-> hue, color_variation |-> cvar, texture_variance |-> tvar,
     region_info |-> 0]

\* positive, hue in the lower green band, varied colour, strong texture
ExLowGreen    == Example(TRUE, FALSE, 50, 25, 150)
\* positive, hue in the upper green band, moderate colour and texture
ExHighGreen   == Example(TRUE, FALSE, 90, 15, 75)
\* positive, empty ground-truth mask: the whole image is the region
ExWholeImage  == Example(TRUE, TRUE, 50, 25, 150)
\* negative, uniform colour, smooth texture
ExArtificial  == Example(FALSE, FALSE, 60, 5, 20)
\* negative, hue outside the green band, varied colour and texture
ExRock        == Example(FALSE, FALSE, 10, 15, 75)

\* an image with no rows
ExEmptyImage  == [Example(FALSE, TRUE, 0, 0, 0) EXCEPT !.empty_image = TRUE]

Examples == {ExLowGreen, ExHighGreen, ExWholeImage, ExArtificial, ExRock, ExEmptyImage}

\* _extract_learning_features: colour features exist only when the region is
\* a list of pixels (a non-empty mask); texture features always
NoFeatures ==
    [error |-> TRUE, has_hsv |-> FALSE, mean_hue |-> 0, color_variation |-> 0,
     texture_variance |-> 0]

_extract_learning_features(ex) ==
    IF ex.empty_image THEN NoFeatures
    ELSE [error            |-> FALSE,
          has_hsv          |-> ~ex.mask_empty,
          mean_hue         |-> IF ex.mask_empty THEN 0 ELSE ex.mean_hue,
          color_variation  |-> IF ex.mask_empty THEN 0 ELSE ex.color_variation,
          texture_variance |-> ex.texture_variance]

(***************************************************************************)
(* The knowledge base.                                                     *)
(***************************************************************************)
\* the fresh base _load_knowledge_base returns when nothing was loaded
FreshBase ==
    [kind |-> "kb", vegetation_patterns |-> <<>>, non_vegetation_patterns |-> <<>>,
     last_updated |-> -1]

\* a JSON value that is not the record with the two pattern lists
OtherJson ==
    [kind |-> "other", vegetation_patterns |-> <<>>, non_vegetation_patterns |-> <<>>,
     last_updated |-> -1]

\* file states: no file, a file that cannot be opened, a file that is not
\* JSON, a file holding some other JSON value, a file holding a saved base
AbsentFile     == [kind |-> "absent", content |-> FreshBase]
UnreadableFile == [kind |-> "unreadable", content |-> FreshBase]
CorruptFile    == [kind |-> "corrupt", content |-> FreshBase]
OtherJsonFile  == [kind |-> "json", content |-> OtherJson]
SavedFile(kb)  == [kind |-> "json", content |-> kb]

\* _load_knowledge_base: json.load's value when the file exists and parses,
\* else the fresh base
_load_knowledge_base(file) ==
    IF file.kind = "json" THEN file.content ELSE FreshBase

\* _save_knowledge_base: stamps last_updated, then overwrites the file; a
\* failing write is logged and swallowed
SaveRaisesMutant(kb, file, t, writable) ==
    [knowledge_base |-> [kb EXCEPT !.last_updated = t],
     knowledge_file |-> IF writable THEN SavedFile([kb EXCEPT !.last_updated = t]) ELSE file,
     raised         |-> ~writable]

_save_knowledge_base(kb, file, t, writable) ==
    [knowledge_base |-> [kb EXCEPT !.last_updated = t],
     knowledge_file |-> IF writable THEN SavedFile([kb EXCEPT !.last_updated = t]) ELSE file,
     raised         |-> FALSE]

(***************************************************************************)
(* Adaptive parameters (fixed point, units of 1/ParamScale).               *)
(***************************************************************************)
\* AdaptiveLearningSystem.__init__: confidence_boost 1.0, vegetation_threshold
\* 0.4, color_sensitivity 1.0, texture_weight 1.0
InitialParams ==
    [confidence_boost     |-> ParamScale,
     vegetation_threshold |-> (4 * ParamScale) \div 10,
     color_sensitivity    |-> ParamScale,
     texture_weight       |-> ParamScale]

InitialStats ==
    [examples_learned |-> 0, positive_examples |-> 0, negative_examples |-> 0,
     last_update |-> -1]

\* x * (1 + lr * num / den) and x * (1 - lr * num / den)
ScaleUp(x, num, den)   == (x * (den * ParamScale + num * learning_rate)) \div (den * ParamScale)
ScaleDown(x, num, den) == (x * (den * ParamScale - num * learning_rate)) \div (den * ParamScale)

\* the vegetation_threshold update of _adapt_parameters: only for a positive
\* example with colour features whose normalized hue lies in (0.2, 0.6)
AdaptThreshold(p, f, is_vegetation) ==
    IF is_vegetation /\ f.has_hsv /\ 5 * f.mean_hue > 180 /\ 5 * f.mean_hue < 3 * 180
    THEN LET target_adjustment == IF 5 * f.mean_hue < 2 * 180 THEN -5 ELSE 5
             new_threshold == p.vegetation_threshold
                                + (learning_rate * target_adjustment) \div 100
         IN  Clip(new_threshold, (2 * ParamScale) \div 10, (7 * ParamScale) \div 10)
    ELSE p.vegetation_threshold

\* the color_sensitivity update, before the final clip
AdaptColor(p, f, is_vegetation) ==
    IF ~f.has_hsv THEN p.color_sensitivity
    ELSE IF is_vegetation /\ f.color_variation > 20
         THEN ScaleUp(p.color_sensitivity, 1, 1)
    ELSE IF ~is_vegetation /\ f.color_variation < 10
         THEN ScaleDown(p.color_sensitivity, 1, 1)
    ELSE p.color_sensitivity

\* the texture_weight update, before the final clip
AdaptTexture(p, f, is_vegetation) ==
    IF is_vegetation /\ f.texture_variance > 100
         THEN ScaleUp(p.texture_weight, 1, 1)
    ELSE IF ~is_vegetation /\ f.texture_variance < 50
         THEN ScaleDown(p.texture_weight, 1, 1)
    ELSE p.texture_weight

\* the confidence_boost update, before the final clip
AdaptBoost(p, is_vegetation) ==
    IF is_vegetation THEN ScaleUp(p.confidence_boost, 1, 2)
                     ELSE ScaleDown(p.confidence_boost, 1, 5)

\* the final clips of _adapt_parameters
ClipParamsNoColorClip(cb, vt, cs, tw) ==
    [confidence_boost     |-> Clip(cb, ParamScale \div 2, 3 * ParamScale),
     vegetation_threshold |-> vt,
     color_sensitivity    |-> cs,
     texture_weight       |-> Clip(tw, ParamScale \div 2, 2 * ParamScale)]

ClipParams(cb, vt, cs, tw) ==
    [confidence_boost     |-> Clip(cb, ParamScale \div 2, 3 * ParamScale),
     vegetation_threshold |-> vt,
     color_sensitivity    |-> Clip(cs, ParamScale \div 2, 2 * ParamScale),
     texture_weight       |-> Clip(tw, ParamScale \div 2, 2 * ParamScale)]

_adapt_parameters(p, f, is_vegetation) ==
    IF f.error THEN p
    ELSE ClipParams(AdaptBoost(p, is_vegetation),
                    AdaptThreshold(p, f, is_vegetation),
                    AdaptColor(p, f, is_vegetation),
                    AdaptTexture(p, f, is_vegetation))

(***************************************************************************)
(* Pruning.                                                                *)
(***************************************************************************)
\* patterns.sort(key=timestamp, reverse=True): a stable sort, newest first;
\* entries with equal timestamps keep their order
Newer(a, b) == a.timestamp > b.timestamp

SortNewestFirst(s) == SortSeq(s, Newer)

\* one list of _prune_knowledge_base
PrunedOffByOne(patterns) ==
    IF Len(patterns) > max_examples + 1
    THEN SubSeq(SortNewestFirst(patterns), 1, max_examples)
    ELSE patterns

Pruned(patterns) ==
    IF Len(patterns) > max_examples
    THEN SubSeq(SortNewestFirst(patterns), 1, max_examples)
    ELSE patterns

_prune_knowledge_base(kb) ==
    [kb EXCEPT !.vegetation_patterns = Pruned(@),
               !.non_vegetation_patterns = Pruned(@)]

(***************************************************************************)
(* learn_from_example as a function of the system's state sys (knowledge   *)
(* base, parameters, stats, file), the example, the clock reading t and    *)
(* whether the file can be written.                                        *)
(***************************************************************************)
Entry(f, t, region_info) == [features |-> f, timestamp |-> t, info |-> region_info]

Appended(kb, f, ex, t) ==
    IF ex.is_vegetation
    THEN [kb EXCEPT !.vegetation_patterns = Append(@, Entry(f, t, ex.region_info))]
    ELSE [kb EXCEPT !.non_vegetation_patterns = Append(@, Entry(f, t, ex.region_info))]

Counted(st, is_vegetation, t) ==
    [examples_learned  |-> st.examples_learned + 1,
     positive_examples |-> st.positive_examples + (IF is_vegetation THEN 1 ELSE 0),
     negative_examples |-> st.negative_examples + (IF is_vegetation THEN 0 ELSE 1),
     last_update       |-> t]

learn_from_example(sys, ex, t, writable) ==
    IF sys.knowledge_base.kind # "kb"
    THEN \* indexing the loaded value by 'vegetation_patterns' raises
         [sys EXCEPT !.raised = TRUE, !.save = "none"]
    ELSE LET f     == _extract_learning_features(ex)
             kb1   == Appended(sys.knowledge_base, f, ex, t)
             saved == _save_knowledge_base(_prune_knowledge_base(kb1),
                                           sys.knowledge_file, t, writable)
         IN  [knowledge_base  |-> saved.knowledge_base,
              adaptive_params |-> _adapt_parameters(sys.adaptive_params, f, ex.is_vegetation),
              stats           |-> Counted(sys.stats, ex.is_vegetation, t),
              knowledge_file  |-> saved.knowledge_file,
              raised          |-> saved.raised,
              save            |-> IF writable THEN "ok" ELSE "skipped"]

\* get_adaptive_confidence_boost: reads the positive list first
BoostRaises(kb) == kb.kind # "kb"

\* similarities are fractions of SimScale
SimScale == 10000

\* pattern_database[-20:], the entries _calculate_similarity_score looks at
SimilarityWindow(pattern_database) ==
    SubSeq(pattern_database, Max(1, Len(pattern_database) - 19), Len(pattern_database))

\* the similarity of one pattern: the mean of the colour similarity
\* 1 / (1 + |diff| / 100), when both sides have colour features, and of the
\* texture similarity 1 / (1 + |diff| / 1000)
PatternSimilarity(f, pf) ==
    LET texture == (1000 * SimScale) \div (1000 + Abs(f.texture_variance - pf.texture_variance))
        hsv     == (100 * SimScale) \div (100 + Abs(f.mean_hue - pf.mean_hue))
    IN  IF f.has_hsv /\ pf.has_hsv THEN (hsv + texture) \div 2 ELSE texture

\* the similarities collected from a window, entries without features skipped
RECURSIVE Similarities(_, _)
Similarities(f, window) ==
    IF window = <<>> THEN <<>>
    ELSE IF Head(window).features.error THEN Similarities(f, Tail(window))
    ELSE <<PatternSimilarity(f, Head(window).features)>> \o Similarities(f, Tail(window))

_calculate_similarity_score(f, pattern_database) ==
    IF pattern_database = <<>> \/ f.error THEN 0
    ELSE IF Similarities(f, SimilarityWindow(pattern_database)) = <<>> THEN 0
    ELSE SumSeq(Similarities(f, SimilarityWindow(pattern_database)))
            \div Len(Similarities(f, SimilarityWindow(pattern_database)))

\* a variant in which similarity to the positive examples lowers the boost
BoostForDamped(confidence_boost, vegetation_similarity, non_vegetation_similarity) ==
    IF vegetation_similarity > non_vegetation_similarity
    THEN (confidence_boost * (SimScale - vegetation_similarity)) \div SimScale
    ELSE (confidence_boost * (2 * SimScale - non_vegetation_similarity)) \div (2 * SimScale)

\* the boost before the final clip
BoostFor(confidence_boost, vegetation_similarity, non_vegetation_similarity) ==
    IF vegetation_similarity > non_vegetation_similarity
    THEN (confidence_boost * (SimScale + vegetation_similarity)) \div SimScale
    ELSE (confidence_boost * (2 * SimScale - non_vegetation_similarity)) \div (2 * SimScale)

\* get_adaptive_confidence_boost(prediction, image), as a multiple of
\* ParamScale; the prediction and the image are given by what
\* _extract_learning_features measures under the thresholded prediction
get_adaptive_confidence_boost(sys, prediction) ==
    IF sys.knowledge_base.vegetation_patterns = <<>> THEN ParamScale
    ELSE IF prediction.mask_empty THEN ParamScale \div 2
    ELSE IF _extract_learning_features(prediction).error THEN ParamScale \div 2
    ELSE Clip(BoostFor(sys.adaptive_params.confidence_boost,
                       _calculate_similarity_score(_extract_learning_features(prediction),
                                                   sys.knowledge_base.vegetation_patterns),
                       _calculate_similarity_score(_extract_learning_features(prediction),
                                                   sys.knowledge_base.non_vegetation_patterns)),
              ParamScale \div 10, 5 * ParamScale)

(***************************************************************************)
(* Images.  An image is its shape and a scene of Cells equal blocks; every *)
(* block is filled with one of two kinds of surface.  A kind carries what  *)
(* the image library measures on it: its colour, its colour after contrast *)
(* equalization, and the responses of the texture, gradient and            *)
(* statistical filters and of the segmentation network.                    *)
(***************************************************************************)
\* blocks per image
Cells == 20
\* messages one client sends over its connection
MaxMessages == 4
\* frames the camera delivers in one run
MaxCaptures == 4
\* frames the processing loop shows in one run
MaxShown == 3
\* learning calls made through the two learning systems of a TrainingSystem
MaxOwnerCalls == 3

ConfScale == 10000

Kind(hue, sat, val, gr, valEq, grEq, tex, grad, stat, pred) ==
    [h |-> hue, s |-> sat, v |-> val, gray |-> gr, v_eq |-> valEq, gray_eq |-> grEq,
     textured |-> tex, gradient |-> grad, statistical |-> stat, prediction |-> pred]

\* saturated green vegetation
Grass     == Kind(60, 150, 120, 91, 140, 106, TRUE, TRUE, TRUE, 100)
\* dry brownish vegetation in shade: brown hue, weak saturation
DryBrush  == Kind(15, 35, 30, 28, 60, 56, TRUE, FALSE, FALSE, 55)
\* grey road surface
Asphalt   == Kind(0, 10, 90, 88, 110, 108, FALSE, FALSE, FALSE, 5)
\* burnt-out highlights
Glare     == Kind(0, 0, 255, 255, 255, 255, FALSE, TRUE, FALSE, 0)
\* deep shadow with a green cast
Shadow    == Kind(70, 60, 15, 14, 45, 42, FALSE, FALSE, TRUE, 35)

\* a scene: the first `split` blocks are of kind a, the others of kind b;
\* laplacian_var is the variance of the image's Laplacian (its focus)
Scene(ka, kb, n, lap) == [a |-> ka, b |-> kb, split |-> n, laplacian_var |-> lap]

\* road with no, little, much and only vegetation; dry brush against glare
\* in balanced and in poor light; shadow against glare and against grass
Scenes ==
    {Scene(Grass, Asphalt, n, 600) : n \in {0, 1, 16, Cells}}
    \cup {Scene(DryBrush, Glare, n, 250) : n \in {Cells \div 2, Cells - 1}}
    \cup {Scene(Shadow, Glare, 15, 600), Scene(Shadow, Grass, 18, 50)}

Shape(h, w) == [height |-> h, width |-> w]

\* a thumbnail, a single scan line, the largest frame that is not resized,
\* and frames that are too tall and too large
Shapes == {Shape(30, 40), Shape(1, 640), Shape(1080, 1920), Shape(1081, 1920),
           Shape(2160, 3840)}

\* the shape of a camera frame
CameraShape == Shape(480, 640)

\* equalizations counts the contrast equalizations the pixels went through
Image(shape, scene) == [shape |-> shape, scene |-> scene, equalizations |-> 0]

\* every scene as a camera frame, a dense scene in every other shape, and a
\* thumbnail with a patch of vegetation
Images ==
    {Image(CameraShape, scene) : scene \in Scenes}
    \cup {Image(shape, Scene(Grass, Asphalt, 17, 600)) : shape \in Shapes}
    \cup {Image(Shape(30, 40), Scene(Grass, Asphalt, 4, 600))}

Pixels(shape) == shape.height * shape.width

\* pixels of the blocks of kind a and of kind b
PixelsOfA(shape, scene) == (scene.split * Pixels(shape)) \div Cells
PixelsOfB(shape, scene) == Pixels(shape) - PixelsOfA(shape, scene)

\* a mask: its shape and which of the two kinds of block it marks
Mask(shape, ma, mb) == [shape |-> shape, a |-> ma, b |-> mb]

\* np.sum(mask > 0)
GrassPixels(mask, scene) ==
    (IF mask.a THEN PixelsOfA(mask.shape, scene) ELSE 0)
    + (IF mask.b THEN PixelsOfB(mask.shape, scene) ELSE 0)

\* the connected regions of a mask, by area: the blocks of one kind are one
\* region, and two marked kinds touch and form a single region
RegionAreas(mask, scene) ==
    IF GrassPixels(mask, scene) = 0 THEN <<>> ELSE <<GrassPixels(mask, scene)>>

\* erase the regions smaller than min_area (cv2.drawContours with 0, or the
\* relabelling of _remove_small_regions)
DropSmallRegions(mask, scene, min_area) ==
    IF GrassPixels(mask, scene) < min_area
    THEN Mask(mask.shape, FALSE, FALSE)
    ELSE Mask(mask.shape, mask.a /\ PixelsOfA(mask.shape, scene) > 0,
                          mask.b /\ PixelsOfB(mask.shape, scene) > 0)

\* cv2.resize of an image or mask to a shape: the scene is kept
Resized(mask, shape) == [mask EXCEPT !.shape = shape]

\* coverage_percentage = grass_pixels / total_pixels * 100, in 1/100 percent
CoveragePercentage(grass_pixels, total_pixels) ==
    MulDiv(grass_pixels, 100 * 100, total_pixels)

(***************************************************************************)
(* Image statistics.                                                       *)
(***************************************************************************)
\* sum and sum of squares of a per-kind measurement over the blocks
BlockSum(scene, va, vb)   == scene.split * va + (Cells - scene.split) * vb
BlockSumSq(scene, va, vb) == scene.split * va * va + (Cells - scene.split) * vb * vb

\* mean(x) / 255 < num / den
MeanBelow(scene, va, vb, num, den) ==
    den * BlockSum(scene, va, vb) < num * 255 * Cells

\* std(x) / 255 < num / den  and  std(x) / 255 > num / den
Spread(scene, va, vb) ==
    Cells * BlockSumSq(scene, va, vb) - BlockSum(scene, va, vb) * BlockSum(scene, va, vb)

StdBelow(scene, va, vb, num, den) ==
    den * den * Spread(scene, va, vb) < num * num * 255 * 255 * Cells * Cells

StdAbove(scene, va, vb, num, den) ==
    den * den * Spread(scene, va, vb) > num * num * 255 * 255 * Cells * Cells

(***************************************************************************)
(* Detector configuration (GrassDetector.__init__).                        *)
(***************************************************************************)
\* self.grass_color_ranges: HSV lower and upper corner of each band
InitialColorRanges ==
    [green_low         |-> <<35, 40, 40>>,  green_high        |-> <<85, 255, 255>>,
     brown_low         |-> <<10, 50, 20>>,  brown_high        |-> <<20, 255, 200>>,
     yellow_green_low  |-> <<25, 30, 30>>,  yellow_green_high |-> <<45, 255, 255>>,
     dark_green_low    |-> <<60, 40, 20>>,  dark_green_high   |-> <<85, 255, 150>>]

LowKeys  == {"green_low", "brown_low", "yellow_green_low", "dark_green_low"}
RangeKeys == DOMAIN InitialColorRanges

\* self.texture_params['min_area']
min_area == 1000
\* self.texture_params['sobel_threshold'] is applied by the image library to
\* the texture score; a kind's `textured` is its outcome

\* self.realtime_params: the flags next to 'enabled' are never changed
fast_morphology   == TRUE
simple_confidence == TRUE
skip_gabor        == TRUE
skip_lbp          == TRUE

\* detect_grass_texture_based: the weights of the four channels, in tenths
TextureWeights(skip_g, skip_l) ==
    LET gabor_weight == IF ~skip_g THEN 3 ELSE 0
        lbp_weight   == IF ~skip_l THEN 2 ELSE 0
    IN  [sobel_contribution    |-> 5 + gabor_weight + lbp_weight,
         gabor_contribution    |-> gabor_weight,
         lbp_contribution      |-> lbp_weight,
         variance_contribution |-> 5 - gabor_weight - lbp_weight]

\* detect_grass_texture_based: one pixel's combined_texture from its four
\* normalised channels (0..255 each), clipped to uint8
CombinedTexture(w, sobel_norm, gabor_norm, lbp_norm, variance_norm) ==
    Clip((sobel_norm * w.sobel_contribution + gabor_norm * w.gabor_contribution
          + lbp_norm * w.lbp_contribution + variance_norm * w.variance_contribution) \div 10,
         0, 255)

\* the detector's mutable state: the two mode flags and the colour ranges
Detector(rt, pr, ranges) ==
    [realtime_enabled |-> rt, precision_enabled |-> pr, grass_color_ranges |-> ranges]

\* a variant of set_realtime_mode that leaves the precision flag alone
SetRealtimeKeepsPrecision(det, enabled) == [det EXCEPT !.realtime_enabled = enabled]

\* a variant of set_precision_mode that leaves the realtime flag alone
SetPrecisionKeepsRealtime(det, enabled) == [det EXCEPT !.precision_enabled = enabled]

\* set_realtime_mode(enabled) and set_precision_mode(enabled)
set_realtime_mode(det, enabled) ==
    [det EXCEPT !.realtime_enabled = enabled, !.precision_enabled = FALSE]

set_precision_mode(det, enabled) ==
    [det EXCEPT !.precision_enabled = enabled, !.realtime_enabled = FALSE]

(***************************************************************************)
(* Colour classifier.                                                      *)
(***************************************************************************)
\* self.auto_calibration thresholds, in tenths
brightness_threshold == 3
contrast_threshold   == 4

\* clahe.apply on the V channel (or on L): the image library's equalization
Equalized(image) ==
    [image EXCEPT !.scene.a.v = image.scene.a.v_eq, !.scene.a.gray = image.scene.a.gray_eq,
                  !.scene.b.v = image.scene.b.v_eq, !.scene.b.gray = image.scene.b.gray_eq,
                  !.equalizations = @ + 1]

_apply_clahe_if_needed(image) ==
    IF StdBelow(image.scene, image.scene.a.gray, image.scene.b.gray, contrast_threshold, 10)
    THEN Equalized(image)
    ELSE image

\* np.maximum(low - [5, 20, 20], 0) and np.minimum(high + [5, 20, 50], [179, 255, 255])
Widened(ranges) ==
    [key \in RangeKeys |->
        IF key \in LowKeys
        THEN <<Max(ranges[key][1] - 5, 0), Max(ranges[key][2] - 20, 0), Max(ranges[key][3] - 20, 0)>>
        ELSE <<Min(ranges[key][1] + 5, 179), Min(ranges[key][2] + 20, 255), Min(ranges[key][3] + 50, 255)>>]

\* calibrated_ranges[key][1] = max(calibrated_ranges[key][1] - 10, 30)
Desaturated(ranges) ==
    [key \in RangeKeys |->
        IF key \in LowKeys
        THEN <<ranges[key][1], Max(ranges[key][2] - 10, 30), ranges[key][3]>>
        ELSE ranges[key]]

\* _calibrate_color_ranges: the ranges the classifier uses, and the detector's
\* own ranges afterwards.  The copy is shallow: unless the low-light branch
\* replaced the arrays, the high-contrast branch writes into the arrays of
\* self.grass_color_ranges.
_calibrate_color_ranges(ranges, image) ==
    LET sc     == image.scene
        dark   == MeanBelow(sc, sc.a.v, sc.b.v, brightness_threshold, 10)
        harsh  == StdAbove(sc, sc.a.v, sc.b.v, contrast_threshold, 10)
        first  == IF dark THEN Widened(ranges) ELSE ranges
    IN  [calibrated |-> IF harsh THEN Desaturated(first) ELSE first,
         grass_color_ranges |-> IF harsh /\ ~dark THEN Desaturated(ranges) ELSE ranges]

\* cv2.inRange on one pixel
InRange(kind, low, high) ==
    /\ low[1] <= kind.h /\ kind.h <= high[1]
    /\ low[2] <= kind.s /\ kind.s <= high[2]
    /\ low[3] <= kind.v /\ kind.v <= high[3]

\* the union of the four band masks on one pixel
InAnyBand(kind, r) ==
    \/ InRange(kind, r.green_low, r.green_high)
    \/ InRange(kind, r.brown_low, r.brown_high)
    \/ InRange(kind, r.yellow_green_low, r.yellow_green_high)
    \/ InRange(kind, r.dark_green_low, r.dark_green_high)

\* _calculate_confidence_score, in 1/ConfScale
AreaConsistency(areas) == IF Len(areas) = 0 THEN ConfScale \div 10 ELSE ConfScale

DensityScore(detected, total) ==
    IF 20 * detected >= total /\ 10 * detected <= 8 * total
    THEN ConfScale
    ELSE IF 20 * detected < total
         THEN MulDiv(20 * detected, ConfScale, total)
         ELSE Max(0, ConfScale - MulDiv(10 * detected - 8 * total, ConfScale, 2 * total))

FocusScore(laplacian_var) == Min(ConfScale, (laplacian_var * ConfScale) \div 500)

_calculate_confidence_score(mask, image) ==
    LET total    == Pixels(mask.shape)
        detected == GrassPixels(mask, image.scene)
        final    == (4 * AreaConsistency(RegionAreas(mask, image.scene))
                     + 3 * DensityScore(detected, total)
                     + 3 * FocusScore(image.scene.laplacian_var)) \div 10
    IN  Max(0, Min(ConfScale, final))

\* the adaptive minimum area of the colour classifier
AdjustedMinArea(initial, total) ==
    LET base_min_area == min_area \div 2
    IN  IF 20 * initial < total THEN (base_min_area * 3) \div 10
        ELSE IF 10 * initial > 8 * total THEN (base_min_area * 15) \div 10
        ELSE base_min_area

\* a statistics dictionary: its keys and the values that are read later
Stats(method, keys, grass, total, confidence) ==
    [method |-> method, keys |-> keys, grass_pixels |-> grass, total_pixels |-> total,
     coverage_percentage |-> CoveragePercentage(grass, total),
     confidence_score |-> confidence, clahe_applied |-> FALSE, equalizations |-> 0]

\* what a call that raised leaves in the place of a mask and of statistics
NoMask  == Mask(Shape(0, 0), FALSE, FALSE)
NoStats == Stats("none", {}, 0, 1, 0)

\* a classifier that raised: no result, and the detector as it was then
Raised(det) == [mask |-> NoMask, stats |-> NoStats, det |-> det, raised |-> TRUE]

ColorKeys ==
    {"method", "grass_pixels", "total_pixels", "coverage_percentage", "confidence_score",
     "num_components", "calibration_used", "clahe_applied", "adaptive_min_area",
     "initial_coverage"}

\* detect_grass_color_based: the mask, the statistics and the detector after
detect_grass_color_based(det, image) ==
    LET enhanced  == _apply_clahe_if_needed(image)
        cal       == _calibrate_color_ranges(det.grass_color_ranges, enhanced)
        sc        == enhanced.scene
        color     == Mask(enhanced.shape, InAnyBand(sc.a, cal.calibrated),
                                          InAnyBand(sc.b, cal.calibrated))
        initial   == GrassPixels(color, sc)
        adjusted  == AdjustedMinArea(initial, Pixels(enhanced.shape))
        cleaned   == DropSmallRegions(color, sc, adjusted)
        total     == Pixels(image.shape)
        grass     == GrassPixels(cleaned, sc)
    IN  [mask  |-> cleaned,
         stats |-> [Stats("color_based", ColorKeys, grass, total,
                          _calculate_confidence_score(cleaned, enhanced))
                    EXCEPT !.clahe_applied = 10 * initial < contrast_threshold * Pixels(enhanced.shape),
                           !.equalizations = enhanced.equalizations],
         det   |-> [det EXCEPT !.grass_color_ranges = cal.grass_color_ranges],
         raised |-> FALSE]

(***************************************************************************)
(* Texture classifier.                                                     *)
(***************************************************************************)
\* int(image.shape * self.realtime_params['reduced_resolution']), 0.5
\* cv2.resize raises when the target size has no rows or no columns
ResizeRaises(shape) == shape.height = 0 \/ shape.width = 0

_preprocess_for_realtime(det, image) ==
    IF ~det.realtime_enabled THEN image
    ELSE [image EXCEPT !.shape = Shape(image.shape.height \div 2, image.shape.width \div 2)]

_postprocess_from_realtime(det, mask, original_shape) ==
    IF ~det.realtime_enabled \/ mask.shape = original_shape THEN mask
    ELSE Resized(mask, original_shape)

TextureKeys ==
    {"method", "grass_pixels", "total_pixels", "coverage_percentage", "confidence_score",
     "avg_texture_score", "max_texture_score", "texture_complexity", "lbp_variance",
     "num_components", "sobel_contribution", "gabor_contribution", "lbp_contribution",
     "variance_contribution"}

\* min(0.8, coverage_percentage / 50.0)
SimpleConfidence(coverage) == Min((8 * ConfScale) \div 10, (coverage * ConfScale) \div (50 * 100))

detect_grass_texture_based(det, image) ==
    IF det.realtime_enabled /\ ResizeRaises(_preprocess_for_realtime(det, image).shape)
    THEN Raised(det)
    ELSE
    LET original_shape == image.shape
        work      == IF det.realtime_enabled THEN _preprocess_for_realtime(det, image) ELSE image
        enhanced  == IF ~fast_morphology THEN _apply_clahe_if_needed(work) ELSE work
        sc        == enhanced.scene
        texture   == Mask(enhanced.shape, sc.a.textured, sc.b.textured)
        cleaned   == DropSmallRegions(texture, sc, min_area)
        restored  == IF det.realtime_enabled
                     THEN _postprocess_from_realtime(det, cleaned, original_shape)
                     ELSE cleaned
        total     == Pixels(original_shape)
        grass     == GrassPixels(restored, sc)
        coverage  == CoveragePercentage(grass, total)
    IN  [mask  |-> restored,
         stats |-> Stats("texture_based", TextureKeys, grass, total,
                         IF simple_confidence THEN SimpleConfidence(coverage)
                         ELSE _calculate_confidence_score(restored, enhanced))
                   @@ TextureWeights(skip_gabor, skip_lbp),
         det   |-> det,
         raised |-> FALSE]

(***************************************************************************)
(* Combined detection.                                                     *)
(***************************************************************************)
\* _preprocess_for_precision: equalization of the lightness, then a filter
\* whose kernel sums to 0.1, which leaves a tenth of every value
_preprocess_for_precision(det, image) ==
    IF ~det.precision_enabled THEN image
    ELSE LET eq == Equalized(image)
             Tenth(kind) == [kind EXCEPT !.v = @ \div 10, !.gray = @ \div 10,
                                         !.v_eq = @ \div 10, !.gray_eq = @ \div 10]
         IN  [eq EXCEPT !.scene.a = Tenth(eq.scene.a), !.scene.b = Tenth(eq.scene.b)]

\* min(coverage / per, 1.0)
CoverageConfidence(coverage, per) == Min(ConfScale, (coverage * ConfScale) \div (per * 100))

_detect_gradient_patterns(image) ==
    LET sc    == image.scene
        mask  == Mask(image.shape, sc.a.gradient, sc.b.gradient)
        grass == GrassPixels(mask, sc)
        total == Pixels(image.shape)
    IN  [mask  |-> mask,
         stats |-> Stats("gradient", {"method", "coverage_percentage", "confidence_score",
                                      "avg_magnitude", "direction_variance"}, grass, total,
                         CoverageConfidence(CoveragePercentage(grass, total), 50))]

_detect_statistical_patterns(image) ==
    LET sc    == image.scene
        mask  == Mask(image.shape, sc.a.statistical, sc.b.statistical)
        grass == GrassPixels(mask, sc)
        total == Pixels(image.shape)
    IN  [mask  |-> mask,
         stats |-> Stats("statistical", {"method", "coverage_percentage", "confidence_score",
                                         "avg_hue", "avg_saturation_variance"}, grass, total,
                         CoverageConfidence(CoveragePercentage(grass, total), 40))]

\* a variant of the adjustment in which coverage lowers the confidence
AdjustedConfLoweredByCoverage(conf, coverage) == conf * (200 * 100 - coverage)

\* adjusted_conf = conf * (1 + coverage / 200), in units of 1 / (ConfScale * 20000)
AdjustedConf(conf, coverage) == conf * (200 * 100 + coverage)

\* _calculate_adaptive_weights: weight i is num[i] / den
_calculate_adaptive_weights(stats_list) ==
    LET confidences == [i \in 1..Len(stats_list) |->
                            AdjustedConf(stats_list[i].confidence_score,
                                         stats_list[i].coverage_percentage)]
        total_conf  == SumSeq(confidences)
    IN  IF Len(stats_list) = 0 THEN [num |-> <<1>>, den |-> 1]
        ELSE IF total_conf > 0 THEN [num |-> confidences, den |-> total_conf]
        ELSE [num |-> [i \in 1..Len(stats_list) |-> 1], den |-> Len(stats_list)]

\* np.percentile(x, q) times 100, linear interpolation, for an array of n
\* values of which count_low hold `low` and the others hold `high`, low <= high
PercentileTimes100(q, n, count_low, low, high) ==
    LET position == q * (n - 1)
        below    == position \div 100
        fraction == position % 100
        At(i)    == IF i < count_low THEN low ELSE high
    IN  (100 - fraction) * At(below) + fraction * At(Min(below + 1, n - 1))

\* the percentile of a per-kind quantity over the pixels of a scene
ScenePercentileTimes100(q, shape, scene, va, vb) ==
    IF va <= vb
    THEN PercentileTimes100(q, Pixels(shape), PixelsOfA(shape, scene), va, vb)
    ELSE PercentileTimes100(q, Pixels(shape), PixelsOfB(shape, scene), vb, va)

\* the weighted sum of the masks on the pixels of one kind, times den / 255
WeightedSum(marks, weights) ==
    SumSeq([i \in 1..Len(marks) |-> IF marks[i] THEN weights.num[i] ELSE 0])

\* a variant of _weighted_mask_combination that keeps the pixels at the
\* percentile as well
WeightedCombinationAtPercentile(det, masks, weights, scene) ==
    LET base_shape == masks[1].shape
        sa == WeightedSum([i \in 1..Len(masks) |-> masks[i].a], weights)
        sb == WeightedSum([i \in 1..Len(masks) |-> masks[i].b], weights)
        la == IF sa > sb THEN 1 ELSE 0
        lb == IF sb > sa THEN 1 ELSE 0
        p70 == ScenePercentileTimes100(70, base_shape, scene, la, lb)
    IN  IF det.precision_enabled
        THEN Mask(base_shape, 100 * la >= p70, 100 * lb >= p70)
        ELSE Mask(base_shape, Exceeds(sa, 255, weights.den, 127),
                              Exceeds(sb, 255, weights.den, 127))

\* _weighted_mask_combination: every mask is brought to the shape of the
\* first; a pixel is kept when its weighted sum exceeds 127, or the 70th
\* percentile of the sums in precision mode.  The sums take two values at
\* most, and the percentile test is unchanged by mapping the smaller to 0
\* and the larger to 1.
_weighted_mask_combination(det, masks, weights, scene) ==
    LET base_shape == masks[1].shape
        sa == WeightedSum([i \in 1..Len(masks) |-> masks[i].a], weights)
        sb == WeightedSum([i \in 1..Len(masks) |-> masks[i].b], weights)
        la == IF sa > sb THEN 1 ELSE 0
        lb == IF sb > sa THEN 1 ELSE 0
        p70 == ScenePercentileTimes100(70, base_shape, scene, la, lb)
    IN  IF det.precision_enabled
        THEN Mask(base_shape, 100 * la > p70, 100 * lb > p70)
        ELSE Mask(base_shape, Exceeds(sa, 255, weights.den, 127),
                              Exceeds(sb, 255, weights.den, 127))

\* _apply_standard_postprocessing and _apply_precision_postprocessing: the
\* morphology, the watershed cut and the edge refinement move pixels along
\* region borders only; at the granularity of blocks the area filter remains
_apply_standard_postprocessing(mask, scene) == DropSmallRegions(mask, scene, 1000)

_apply_precision_postprocessing(mask, scene) == DropSmallRegions(mask, scene, 500)

CombinedKeys ==
    {"method", "grass_pixels", "total_pixels", "coverage_percentage", "confidence_score",
     "methods_agreement", "spatial_analysis", "component_stats", "mode", "dominant_colors"}

_calculate_combined_stats(det, mask, image) ==
    Stats(IF det.precision_enabled THEN "combined_enhanced" ELSE "combined", CombinedKeys,
          GrassPixels(mask, image.scene), Pixels(mask.shape),
          _calculate_confidence_score(mask, image))

\* the second half of detect_grass_combined: the auxiliary classifiers of the
\* precision mode, the weights, the fusion, the post-processing and the
\* statistics, given the results of the colour and the texture classifier
CombineMethods(det, processed, color, texture) ==
    IF color.raised THEN Raised(color.det)
    ELSE IF texture.raised THEN Raised(texture.det)
    ELSE
    LET all   == <<color, texture>>
                 \o (IF det.precision_enabled
                     THEN <<_detect_gradient_patterns(processed),
                            _detect_statistical_patterns(processed)>>
                     ELSE <<>>)
        fused == _weighted_mask_combination(
                     det, [i \in 1..Len(all) |-> all[i].mask],
                     _calculate_adaptive_weights([i \in 1..Len(all) |-> all[i].stats]),
                     processed.scene)
        final == IF det.precision_enabled
                 THEN _apply_precision_postprocessing(fused, processed.scene)
                 ELSE _apply_standard_postprocessing(fused, processed.scene)
    IN  [mask  |-> final,
         stats |-> [_calculate_combined_stats(det, final, processed)
                    EXCEPT !.equalizations = color.stats.equalizations],
         det   |-> texture.det,
         raised |-> FALSE]

\* detect_grass_combined: the colour classifier runs first, the texture
\* classifier on the detector it leaves
detect_grass_combined(det, image) ==
    LET processed == IF det.precision_enabled THEN _preprocess_for_precision(det, image)
                     ELSE image
    IN  CombineMethods(det, processed,
                       detect_grass_color_based(det, processed),
                       detect_grass_texture_based(
                           detect_grass_color_based(det, processed).det, processed))

(***************************************************************************)
(* Detection with the segmentation network.                                *)
(***************************************************************************)

\* the threshold of _postprocess_deep_learning, in 1/100 percent
PredictionThreshold(p50, p75) ==
    LET chosen == IF p75 > 3000 THEN Max(4000, p50)
                  ELSE IF p50 > 2000 THEN Max(3000, p50)
                  ELSE Max(2000, p75)
    IN  Min(chosen, 6000)

\* _validate_deep_learning_by_color
_validate_deep_learning_by_color(mask, scene) ==
    LET high   == Mask(mask.shape, mask.a /\ scene.a.prediction > 80,
                                   mask.b /\ scene.b.prediction > 80)
        medium == Mask(mask.shape, mask.a /\ scene.a.prediction > 60,
                                   mask.b /\ scene.b.prediction > 60)
    IN  IF 10 * GrassPixels(high, scene) < 3 * GrassPixels(mask, scene) THEN medium ELSE high

_postprocess_deep_learning(det, image, original_shape) ==
    LET sc   == image.scene
        p50  == ScenePercentileTimes100(50, original_shape, sc, sc.a.prediction, sc.b.prediction)
        p75  == ScenePercentileTimes100(75, original_shape, sc, sc.a.prediction, sc.b.prediction)
        thr  == PredictionThreshold(p50, p75)
        mask == Mask(original_shape, 100 * sc.a.prediction > thr, 100 * sc.b.prediction > thr)
        clean == DropSmallRegions(mask, sc, IF det.precision_enabled THEN 200 ELSE 100)
    IN  IF det.precision_enabled THEN _validate_deep_learning_by_color(clean, sc) ELSE clean

\* a variant of the final clip of the confidence that has no upper limit
ClipCertaintyNoCeiling(certainty) == Max(certainty, (5 * ConfScale) \div 100)

\* np.clip(combined_certainty, 0.05, 0.95)
ClipCertainty(certainty) == Clip(certainty, (5 * ConfScale) \div 100, (95 * ConfScale) \div 100)

\* _calculate_consensus_confidence: the score, and the detector afterwards
\* (the colour ranges as the classifier left them, the modes as the two
\* set_precision_mode calls left them).  Consensus is its second half: the
\* score from the three coverages and the precision flag put back, or the
\* neutral score of the handler when a classifier raised
Consensus(temp_precision, dl_coverage, color, texture) ==
    IF color.raised THEN [score |-> ConfScale \div 2, det |-> color.det]
    ELSE IF texture.raised THEN [score |-> ConfScale \div 2, det |-> texture.det]
    ELSE
    LET max_diff == Max(Max(Abs(dl_coverage - color.stats.coverage_percentage),
                            Abs(dl_coverage - texture.stats.coverage_percentage)),
                        Abs(color.stats.coverage_percentage - texture.stats.coverage_percentage))
        score    == (ConfScale * 2000) \div (2000 + max_diff)
        boosted  == IF max_diff < 1000 THEN (score * 15) \div 10 ELSE score
    IN  [score |-> Clip(boosted, ConfScale \div 10, ConfScale),
         det   |-> set_precision_mode(texture.det, temp_precision)]

_calculate_consensus_confidence(det, mask, original_image) ==
    Consensus(det.precision_enabled,
              CoveragePercentage(GrassPixels(mask, original_image.scene), Pixels(mask.shape)),
              detect_grass_color_based(set_precision_mode(det, FALSE), original_image),
              detect_grass_texture_based(
                  detect_grass_color_based(set_precision_mode(det, FALSE), original_image).det,
                  original_image))

DeepLearningKeys ==
    {"method", "grass_pixels", "total_pixels", "coverage_percentage", "confidence_score",
     "prediction_stats", "spatial_analysis", "dominant_colors", "learning_stats"}

\* _calculate_deep_learning_stats: the statistics, next to the mask they
\* describe and the detector afterwards
_calculate_deep_learning_stats(det, mask, original_image, confidence_boost) ==
    LET sc        == original_image.scene
        total     == Pixels(mask.shape)
        grass     == GrassPixels(mask, sc)
        certainty == MulDiv(PixelsOfA(mask.shape, sc) * 2 * Abs(sc.a.prediction - 50)
                            + PixelsOfB(mask.shape, sc) * 2 * Abs(sc.b.prediction - 50),
                            ConfScale \div 100, total)
        consensus == _calculate_consensus_confidence(det, mask, original_image)
        combined  == (6 * certainty + 4 * consensus.score) \div 10
        boosted   == (combined * confidence_boost) \div ParamScale
    IN  [mask  |-> mask,
         stats |-> Stats("deeplearning_enhanced", DeepLearningKeys, grass, total,
                         ClipCertainty(boosted)),
         det   |-> consensus.det,
         raised |-> FALSE]

\* detect_grass_deep_learning; predict_raises is the network failing, which
\* the handler answers with the combined method
detect_grass_deep_learning(det, image, available, predict_raises, confidence_boost) ==
    IF ~available \/ predict_raises THEN detect_grass_combined(det, image)
    ELSE _calculate_deep_learning_stats(
             det,
             _postprocess_deep_learning(
                 det,
                 IF det.precision_enabled THEN _preprocess_for_precision(det, image) ELSE image,
                 image.shape),
             image, confidence_boost)

(***************************************************************************)
(* detect_grass_areas.                                                     *)
(***************************************************************************)
MaxWidth  == 1920
MaxHeight == 1080

\* int(width * scale), int(height * scale) for scale = min(1920 / width, 1080 / height)
ResizedShape(shape) ==
    IF MaxWidth * shape.height <= MaxHeight * shape.width
    THEN Shape((shape.height * MaxWidth) \div shape.width, MaxWidth)
    ELSE Shape(MaxHeight, (shape.width * MaxHeight) \div shape.height)

\* the selectors; 'deeplearning' without a loaded network takes the same
\* final branch as an unknown selector
Methods == {"color", "texture", "combined", "deeplearning"}

detect_grass_areas(det, image, method, available, predict_raises, confidence_boost) ==
    LET shape == image.shape
        sized == IF shape.width > MaxWidth \/ shape.height > MaxHeight
                 THEN [image EXCEPT !.shape = ResizedShape(shape)]
                 ELSE image
    IN  IF method = "color" THEN detect_grass_color_based(det, sized)
        ELSE IF method = "texture" THEN detect_grass_texture_based(det, sized)
        ELSE IF method = "combined" THEN detect_grass_combined(det, sized)
        ELSE IF method = "deeplearning" /\ available
             THEN detect_grass_deep_learning(det, sized, available, predict_raises, confidence_boost)
        ELSE detect_grass_combined(det, sized)

\* _detect_problematic_scenarios: the two flags derived from the mask.  No
\* method of the detector calls this function.
_detect_problematic_scenarios(mask, scene) ==
    [sparse_detection |-> 20 * GrassPixels(mask, scene) < Pixels(mask.shape),
     dense_detection  |-> 10 * GrassPixels(mask, scene) > 8 * Pixels(mask.shape)]

(***************************************************************************)
(* The state of the detector and of the weighting before any call.         *)
(***************************************************************************)
NoImage == [shape |-> Shape(0, 0), scene |-> Scene(Asphalt, Asphalt, 0, 0), equalizations |-> 0]

\* a call: its arguments, the mode flags it found, and what it returned
Call(op, image, method, raises, rt, pr, mask, st) ==
    [op |-> op, image |-> image, method |-> method, predict_raises |-> raises,
     before |-> [realtime_enabled |-> rt, precision_enabled |-> pr],
     mask |-> mask, stats |-> st, raised |-> FALSE]

NoCall(op, rt, pr) == Call(op, NoImage, "none", FALSE, rt, pr, NoMask, NoStats)

NotRepeated == [valid |-> FALSE, mask |-> NoMask]

\* GrassDetector.__init__: both modes off, the configured colour ranges
DetectorIdle ==
    /\ realtime_enabled = FALSE
    /\ precision_enabled = FALSE
    /\ grass_color_ranges = InitialColorRanges
    /\ model_available = FALSE
    /\ last = NoCall("init", FALSE, FALSE)
    /\ repeated = NotRepeated

NoWeights == [num |-> <<>>, den |-> 1]

WeightsIdle ==
    /\ weighed_stats = <<>>
    /\ returned_weights = NoWeights

NoTexture == [weights |-> <<>>, combined_texture |-> 0]

TextureIdle ==
    /\ texture_input = <<>>
    /\ texture_output = NoTexture

FusionIdle ==
    /\ fusion_input = <<>>
    /\ fusion_output = NoMask

NoRefinement == [refinement_area |-> {}, refined_mask |-> {}, done |-> FALSE]

RefineIdle ==
    /\ refine_input = <<>>
    /\ refine_output = NoRefinement

\* the file names: the system's own file and the default export file
OwnFile    == "knowledge_base.json"
ExportFile == "learned_knowledge.json"

NoExport == [op |-> "none", filename |-> OwnFile, returned |-> FALSE,
             exported |-> FreshBase, own |-> OwnFile, after_export |-> FALSE, calls |-> 0]

ExportIdle ==
    /\ exp_files = [f \in {OwnFile, ExportFile} |-> AbsentFile]
    /\ exp_knowledge_file = OwnFile
    /\ exp_knowledge_base = FreshBase
    /\ exp_last = NoExport

NoJob == [quality |-> "1", pc |-> "none", frame_count |-> 0]

NoRequest == [quality |-> "1", pc |-> "idle", served |-> 0]

JobIdle ==
    /\ video_job = NoJob
    /\ request = NoRequest
    /\ frame_modes = <<>>

RestIdle ==
    WeightsIdle /\ TextureIdle /\ FusionIdle /\ RefineIdle /\ ExportIdle /\ JobIdle

(***************************************************************************)
(* The servers, the webcam loop and the training system before they start. *)
(***************************************************************************)
\* a frame the client or the camera delivers, by its number
NoFrame == 0

NoMessage == [type |-> "none", id |-> NoFrame, data |-> FALSE, during_inference |-> FALSE,
              method |-> "combined", quality |-> "1"]

\* the handler's locals after ws.accept()
WebSocketIdle ==
    /\ ws_inbox = <<>>
    /\ ws_sent = 0
    /\ ws_pc = "receive"
    /\ ws_config = [method |-> "combined", quality |-> "1"]
    /\ _processing = FALSE
    /\ ws_frame = NoMessage
    /\ ws_results = <<>>

\* the shared variables of webcam_realtime as it creates them
WebcamIdle ==
    /\ latest_frame = NoFrame
    /\ frame_lock = "free"
    /\ stop_event = FALSE
    /\ camera = [delivered |-> 0, open |-> TRUE]
    /\ capture_pc = "not_started"
    /\ capture_frame = NoFrame
    /\ loop_pc = "start"
    /\ frame = NoFrame
    /\ shown = <<>>

NoLearningSystem == [knowledge_base |-> FreshBase]

OthersIdle ==
    /\ ws_endpoint = "webcam"
    /\ WebSocketIdle
    /\ WebcamIdle
    /\ learning_system = NoLearningSystem
    /\ persisted = {}

(***************************************************************************)
(* The learning system as a state machine.                                 *)
(***************************************************************************)
System ==
    [knowledge_base |-> knowledge_base, adaptive_params |-> adaptive_params,
     stats |-> stats, knowledge_file |-> knowledge_file,
     raised |-> outcome.raised, save |-> outcome.save]

\* the examples one run may teach and how its clock moves: a free mix for a
\* short run, or one example repeated for a long one
Workloads ==
    {[kind |-> "free", example |-> ExLowGreen]}
    \cup {[kind |-> "repeat", example |-> ex] : ex \in Examples}

Environments ==
    [workload : Workloads, writable : BOOLEAN, tick : {0, 1}]

\* the predictions the boost is asked for: grass as in the positive examples,
\* rock as in a negative one, and a prediction below 0.3 everywhere
Predictions == {ExLowGreen, ExRock, ExWholeImage}

Allowed(e)  == IF e.workload.kind = "free" THEN Examples ELSE {e.workload.example}
Ticks(e)    == IF e.workload.kind = "free" THEN {0, 1} ELSE {e.tick}
MaxCalls(e) == IF e.workload.kind = "free" THEN MaxFree ELSE MaxLearn
\* long runs are not restarted
MaxRestartsOf(e) == IF e.workload.kind = "free" THEN MaxRestarts ELSE 0

InitialFiles == {AbsentFile, UnreadableFile, CorruptFile, OtherJsonFile}

\* AdaptiveLearningSystem.__init__
Construct(file) ==
    /\ knowledge_base = _load_knowledge_base(file)
    /\ adaptive_params = InitialParams
    /\ stats = InitialStats

\* a learning system that was built and is left alone
LearningIdle ==
    /\ knowledge_file = AbsentFile
    /\ Construct(knowledge_file)
    /\ now = 0
    /\ env = [workload |-> [kind |-> "free", example |-> ExLowGreen],
              writable |-> TRUE, tick |-> 0]
    /\ outcome = [op |-> "init", raised |-> FALSE, save |-> "none"]
    /\ calls = 0
    /\ restarts = 0

LearnInit ==
    /\ knowledge_file \in InitialFiles
    /\ env \in Environments
    /\ (env.workload.kind = "free" => env.tick = 0)
    /\ Construct(knowledge_file)
    /\ now = 0
    /\ outcome = [op |-> "init", raised |-> FALSE, save |-> "none"]
    /\ calls = 0
    /\ restarts = 0
    /\ DetectorIdle
    /\ RestIdle
    /\ OthersIdle

Learn ==
    /\ calls < MaxCalls(env)
    /\ calls' = calls + 1
    /\ \E ex \in Allowed(env), d \in Ticks(env) :
         \* the caller numbers its examples in region_info
         LET r == learn_from_example(System, [ex EXCEPT !.region_info = calls + 1],
                                     now + d, env.writable)
         IN  /\ now' = now + d
             /\ knowledge_base' = r.knowledge_base
             /\ adaptive_params' = r.adaptive_params
             /\ stats' = r.stats
             /\ knowledge_file' = r.knowledge_file
             /\ outcome' = [op |-> "learn", raised |-> r.raised, save |-> r.save]
    /\ UNCHANGED <<env, restarts>>
    /\ UNCHANGED <<detVars, restVars, otherVars>>

GetBoost ==
    /\ \E prediction \in Predictions :
          outcome' = [op |-> "boost", raised |-> BoostRaises(knowledge_base),
                      save |-> "none", prediction |-> prediction,
                      boost |-> IF BoostRaises(knowledge_base) THEN 0
                                ELSE get_adaptive_confidence_boost(System, prediction)]
    /\ UNCHANGED <<knowledge_file, knowledge_base, adaptive_params, stats, now, env,
                   calls, restarts>>
    /\ UNCHANGED <<detVars, restVars, otherVars>>

\* the process ends and a new one builds the system from the file on disk
Restart ==
    /\ restarts < MaxRestartsOf(env)
    /\ restarts' = restarts + 1
    /\ knowledge_base' = _load_knowledge_base(knowledge_file)
    /\ adaptive_params' = InitialParams
    /\ stats' = InitialStats
    /\ outcome' = [op |-> "init", raised |-> FALSE, save |-> "none"]
    /\ UNCHANGED <<knowledge_file, now, env, calls>>
    /\ UNCHANGED <<detVars, restVars, otherVars>>

LearnNext == Learn \/ GetBoost \/ Restart

vars == <<learnVars, detVars, restVars, otherVars>>

SpecLearn == LearnInit /\ [][LearnNext]_vars

(***************************************************************************)
(* The detector as a state machine.                                        *)
(***************************************************************************)
\* the synthetic examples of create_training_examples, by their measurements:
\* noisy natural green over the whole image, and flat artificial green
SyntheticVegetation    == Example(TRUE, FALSE, 26, 15, 150)
SyntheticNonVegetation == Example(FALSE, FALSE, 25, 5, 20)

create_training_examples ==
    <<SyntheticVegetation, SyntheticVegetation, SyntheticVegetation,
      SyntheticNonVegetation, SyntheticNonVegetation, SyntheticNonVegetation>>

RECURSIVE LearnAll(_, _, _, _)
LearnAll(sys, examples, t, writable) ==
    IF examples = <<>> THEN sys
    ELSE LearnAll(learn_from_example(sys, Head(examples), t + 1, writable),
                  Tail(examples), t + 1, writable)

\* _initialize_with_training_examples: teaches the synthetic examples to a
\* system that has learned nothing in this process
_initialize_with_training_examples(sys, t, writable) ==
    IF sys.stats.examples_learned = 0
    THEN LearnAll(sys, create_training_examples, t, writable)
    ELSE sys

Det == Detector(realtime_enabled, precision_enabled, grass_color_ranges)

DetectInit ==
    /\ LET fresh   == [knowledge_base |-> _load_knowledge_base(AbsentFile),
                       adaptive_params |-> InitialParams, stats |-> InitialStats,
                       knowledge_file |-> AbsentFile, raised |-> FALSE, save |-> "none"]
           trained == _initialize_with_training_examples(fresh, 0, TRUE)
       IN  /\ knowledge_base = trained.knowledge_base
           /\ adaptive_params = trained.adaptive_params
           /\ stats = trained.stats
           /\ knowledge_file = trained.knowledge_file
           /\ outcome = [op |-> "learn", raised |-> trained.raised, save |-> trained.save]
    /\ now = Len(create_training_examples)
    /\ env = [workload |-> [kind |-> "free", example |-> ExLowGreen],
              writable |-> TRUE, tick |-> 0]
    /\ calls = 0
    /\ restarts = 0
    /\ realtime_enabled = FALSE
    /\ precision_enabled = FALSE
    /\ grass_color_ranges = InitialColorRanges
    /\ model_available \in BOOLEAN
    /\ last = NoCall("init", FALSE, FALSE)
    /\ repeated = NotRepeated
    /\ RestIdle
    /\ OthersIdle

SetRealtimeMode ==
    \E enabled \in BOOLEAN :
        LET d == set_realtime_mode(Det, enabled)
        IN  /\ realtime_enabled' = d.realtime_enabled
            /\ precision_enabled' = d.precision_enabled
            /\ last' = NoCall("set_realtime_mode", realtime_enabled, precision_enabled)
            /\ repeated' = NotRepeated
            /\ UNCHANGED <<grass_color_ranges, model_available, learnVars, restVars, otherVars>>

SetPrecisionMode ==
    \E enabled \in BOOLEAN :
        LET d == set_precision_mode(Det, enabled)
        IN  /\ realtime_enabled' = d.realtime_enabled
            /\ precision_enabled' = d.precision_enabled
            /\ last' = NoCall("set_precision_mode", realtime_enabled, precision_enabled)
            /\ repeated' = NotRepeated
            /\ UNCHANGED <<grass_color_ranges, model_available, learnVars, restVars, otherVars>>

\* what one detect_grass_areas(image, method) call does to the detector
DetectCall(image, method, predict_raises) ==
    \E r \in {detect_grass_areas(Det, image, method, model_available, predict_raises,
                                 adaptive_params.confidence_boost)} :
        LET call == [Call("detect", image, method, predict_raises,
                          realtime_enabled, precision_enabled, r.mask, r.stats)
                     EXCEPT !.raised = r.raised]
            same == /\ last.op = "detect"
                    /\ last.image = image
                    /\ last.method = method
                    /\ last.predict_raises = predict_raises
                    /\ last.before = call.before
        IN  /\ realtime_enabled' = r.det.realtime_enabled
            /\ precision_enabled' = r.det.precision_enabled
            /\ grass_color_ranges' = r.det.grass_color_ranges
            /\ last' = call
            /\ repeated' = IF same THEN [valid |-> TRUE, mask |-> last.mask]
                           ELSE NotRepeated

\* detect_grass_areas(image, method); the network may fail when it is used
Detect ==
    \E image \in Images, method \in Methods, predict_raises \in BOOLEAN :
        /\ predict_raises => (method = "deeplearning" /\ model_available)
        /\ DetectCall(image, method, predict_raises)
        /\ UNCHANGED <<model_available, learnVars, restVars, otherVars>>

DetectNext == SetRealtimeMode \/ SetPrecisionMode \/ Detect

SpecDetect == DetectInit /\ [][DetectNext]_vars

(***************************************************************************)
(* One WebSocket connection: the client sends messages whenever it likes,  *)
(* the handler coroutine reads them one at a time.  A message the client   *)
(* sends while the handler is not awaiting ws.receive_text() waits in the  *)
(* connection's receive queue.                                             *)
(***************************************************************************)
\* the camera frame with a given number
FrameImage(id) ==
    Image(CameraShape, IF id % 2 = 1 THEN Scene(Grass, Asphalt, 16, 600)
                       ELSE Scene(Shadow, Glare, 15, 600))

\* what the client may send as its message number id
ClientMessages(id, busy) ==
    {[NoMessage EXCEPT !.type = "frame", !.id = id, !.data = d, !.during_inference = busy]
        : d \in BOOLEAN}
    \cup {[NoMessage EXCEPT !.type = "config", !.method = m, !.quality = q]
             : m \in {"combined", "color"}, q \in {"1", "2"}}
    \cup {[NoMessage EXCEPT !.type = "disconnect"]}

WebSocketInit ==
    /\ LearningIdle
    /\ DetectorIdle
    /\ RestIdle
    /\ ws_endpoint \in {"webcam", "people"}
    /\ WebSocketIdle
    /\ WebcamIdle
    /\ learning_system = NoLearningSystem
    /\ persisted = {}

ClientSends ==
    /\ ws_sent < MaxMessages
    /\ ws_pc # "closed"
    /\ \E msg \in ClientMessages(ws_sent + 1, ws_pc = "inference") :
          /\ ws_inbox' = Append(ws_inbox, msg)
          /\ ws_sent' = IF msg.type = "disconnect" THEN MaxMessages ELSE ws_sent + 1
    /\ UNCHANGED <<ws_endpoint, ws_pc, ws_config, _processing, ws_frame, ws_results>>
    /\ UNCHANGED <<learnVars, detVars, restVars, camVars, ownVars>>

\* one pass of the handler's loop from ws.receive_text() to the start of the
\* inference, or to the continue that skips the message
Receive ==
    /\ ws_pc = "receive"
    /\ ws_inbox # <<>>
    /\ ws_inbox' = Tail(ws_inbox)
    /\ LET msg == Head(ws_inbox)
       IN  IF msg.type = "disconnect"
           THEN /\ ws_pc' = "closed"
                /\ UNCHANGED <<ws_config, _processing, ws_frame, detVars>>
           ELSE IF msg.type = "config"
           THEN /\ ws_config' = [method |-> IF ws_endpoint = "webcam" THEN msg.method
                                            ELSE ws_config.method,
                                 quality |-> msg.quality]
                /\ IF ws_endpoint = "webcam"
                   THEN LET d == IF msg.quality = "2" THEN set_precision_mode(Det, TRUE)
                                 ELSE set_realtime_mode(Det, TRUE)
                        IN  /\ realtime_enabled' = d.realtime_enabled
                            /\ precision_enabled' = d.precision_enabled
                            /\ last' = NoCall(IF msg.quality = "2" THEN "set_precision_mode"
                                              ELSE "set_realtime_mode",
                                              realtime_enabled, precision_enabled)
                            /\ repeated' = NotRepeated
                            /\ UNCHANGED <<grass_color_ranges, model_available>>
                   ELSE UNCHANGED detVars
                /\ UNCHANGED <<ws_pc, _processing, ws_frame>>
           ELSE IF ~msg.data \/ (ws_endpoint = "people" /\ _processing)
           THEN UNCHANGED <<ws_pc, ws_config, _processing, ws_frame, detVars>>
           ELSE /\ ws_pc' = "inference"
                /\ ws_frame' = msg
                /\ _processing' = (ws_endpoint = "people")
                /\ UNCHANGED <<ws_config, detVars>>
    /\ UNCHANGED <<ws_endpoint, ws_sent, ws_results>>
    /\ UNCHANGED <<learnVars, restVars, camVars, ownVars>>

\* the inference returns and the handler sends the result
InferenceDone ==
    /\ ws_pc = "inference"
    /\ IF ws_endpoint = "webcam"
       THEN /\ DetectCall(FrameImage(ws_frame.id), ws_config.method, FALSE)
            /\ UNCHANGED model_available
       ELSE UNCHANGED detVars
    /\ _processing' = FALSE
    /\ ws_results' = Append(ws_results, ws_frame)
    /\ ws_pc' = "receive"
    /\ UNCHANGED <<ws_endpoint, ws_inbox, ws_sent, ws_config, ws_frame>>
    /\ UNCHANGED <<learnVars, restVars, camVars, ownVars>>

WebSocketNext == ClientSends \/ Receive \/ InferenceDone

SpecWebSocket == WebSocketInit /\ [][WebSocketNext]_vars

(***************************************************************************)
(* The continuous webcam loop: capture_thread and the processing loop of   *)
(* webcam_realtime, one step per statement that touches what they share.   *)
(***************************************************************************)
\* a variant of the lock that lets a thread in while another holds it
AlwaysAcquirable(holder) == TRUE

\* threading.Lock: a "with frame_lock:" block is entered when no thread holds
\* the lock
Acquirable(holder) == holder = "free"

\* webcam_realtime up to cap_thread.start()
WebcamInit ==
    /\ LearningIdle
    /\ DetectorIdle
    /\ RestIdle
    /\ ws_endpoint = "webcam"
    /\ WebSocketIdle
    /\ latest_frame = NoFrame
    /\ frame_lock = "free"
    /\ stop_event = FALSE
    /\ camera = [delivered |-> 0, open |-> TRUE]
    /\ capture_pc = "read"
    /\ capture_frame = NoFrame
    /\ loop_pc = "warmup"
    /\ frame = NoFrame
    /\ shown = <<>>
    /\ learning_system = NoLearningSystem
    /\ persisted = {}

\* while not stop_event.is_set(): ret, frame = cap.read(); if not ret: break
CaptureRead ==
    /\ capture_pc = "read"
    /\ IF stop_event
       THEN capture_pc' = "done" /\ UNCHANGED <<camera, capture_frame>>
       ELSE \E ret \in {camera.open /\ camera.delivered < MaxCaptures, FALSE} :
              IF ret
              THEN /\ camera' = [camera EXCEPT !.delivered = @ + 1]
                   /\ capture_frame' = camera.delivered + 1
                   /\ capture_pc' = "acquire"
              ELSE /\ camera' = [camera EXCEPT !.open = FALSE]
                   /\ capture_pc' = "done"
                   /\ UNCHANGED capture_frame
    /\ UNCHANGED <<latest_frame, frame_lock, stop_event, loop_pc, frame, shown>>
    /\ UNCHANGED <<learnVars, detVars, restVars, wsVars, ownVars>>

\* with frame_lock: (entering)
CaptureAcquire ==
    /\ capture_pc = "acquire"
    /\ Acquirable(frame_lock)
    /\ frame_lock' = "capture"
    /\ capture_pc' = "write"
    /\ UNCHANGED <<latest_frame, stop_event, camera, capture_frame, loop_pc, frame, shown>>
    /\ UNCHANGED <<learnVars, detVars, restVars, wsVars, ownVars>>

\* latest_frame[0] = frame, and leaving the with block
CaptureWrite ==
    /\ capture_pc = "write"
    /\ latest_frame' = capture_frame
    /\ frame_lock' = "free"
    /\ capture_pc' = "read"
    /\ UNCHANGED <<stop_event, camera, capture_frame, loop_pc, frame, shown>>
    /\ UNCHANGED <<learnVars, detVars, restVars, wsVars, ownVars>>

\* with frame_lock: (entering), in the wait for the first frame and in the
\* processing loop, which ends when stop_event is set
LoopAcquire ==
    /\ loop_pc \in {"warmup", "loop"}
    /\ Len(shown) < MaxShown
    /\ IF loop_pc = "loop" /\ stop_event
       THEN loop_pc' = "done" /\ UNCHANGED frame_lock
       ELSE /\ Acquirable(frame_lock)
            /\ frame_lock' = "loop"
            /\ loop_pc' = IF loop_pc = "warmup" THEN "warmup_locked" ELSE "loop_locked"
    /\ UNCHANGED <<latest_frame, stop_event, camera, capture_pc, capture_frame, frame, shown>>
    /\ UNCHANGED <<learnVars, detVars, restVars, wsVars, ownVars>>

\* reading the slot under the lock and leaving the with block: the wait goes
\* on until a frame is there or its 50 tries are used up; the loop takes the
\* frame, or sleeps and tries again when there is none
LoopRead ==
    /\ loop_pc \in {"warmup_locked", "loop_locked"}
    /\ frame_lock' = "free"
    /\ IF loop_pc = "warmup_locked"
       THEN /\ \E tries_left \in {latest_frame = NoFrame, FALSE} :
                 loop_pc' = IF tries_left THEN "warmup" ELSE "loop"
            /\ UNCHANGED frame
       ELSE /\ frame' = latest_frame
            /\ loop_pc' = IF latest_frame = NoFrame THEN "loop" ELSE "detect"
    /\ UNCHANGED <<latest_frame, stop_event, camera, capture_pc, capture_frame, shown>>
    /\ UNCHANGED <<learnVars, detVars, restVars, wsVars, ownVars>>

\* detect_grass_areas on the frame, the overlay and cv2.imshow
Process ==
    /\ loop_pc = "detect"
    /\ DetectCall(FrameImage(frame), "combined", FALSE)
    /\ shown' = Append(shown, frame)
    /\ loop_pc' = "keys"
    /\ UNCHANGED <<model_available, latest_frame, frame_lock, stop_event, camera, capture_pc,
                   capture_frame, frame>>
    /\ UNCHANGED <<learnVars, restVars, wsVars, ownVars>>

\* cv2.waitKey(1): q leaves the loop and sets stop_event, m switches the mode
Keys ==
    /\ loop_pc = "keys"
    /\ \E key \in {"none", "q", "m"} :
          /\ loop_pc' = IF key = "q" THEN "done" ELSE "loop"
          /\ stop_event' = (key = "q")
          /\ IF key = "m"
             THEN LET d == IF realtime_enabled THEN set_precision_mode(Det, TRUE)
                           ELSE set_realtime_mode(Det, TRUE)
                  IN  /\ realtime_enabled' = d.realtime_enabled
                      /\ precision_enabled' = d.precision_enabled
                      /\ last' = NoCall(IF realtime_enabled THEN "set_precision_mode"
                                        ELSE "set_realtime_mode",
                                        realtime_enabled, precision_enabled)
                      /\ repeated' = NotRepeated
                      /\ UNCHANGED <<grass_color_ranges, model_available>>
             ELSE UNCHANGED detVars
    /\ UNCHANGED <<latest_frame, frame_lock, camera, capture_pc, capture_frame, frame, shown>>
    /\ UNCHANGED <<learnVars, restVars, wsVars, ownVars>>

WebcamNext ==
    CaptureRead \/ CaptureAcquire \/ CaptureWrite \/ LoopAcquire \/ LoopRead \/ Process \/ Keys

SpecWebcam == WebcamInit /\ [][WebcamNext]_vars

(***************************************************************************)
(* A TrainingSystem: its detector owns one learning system (the variables  *)
(* of the learning system above), it owns another, and both were built     *)
(* with the default knowledge file.                                        *)
(***************************************************************************)
\* a learning system as learn_from_example sees it, over the shared file
OwnedSystem(own) ==
    [knowledge_base |-> own.knowledge_base, adaptive_params |-> own.adaptive_params,
     stats |-> own.stats, knowledge_file |-> knowledge_file, raised |-> FALSE,
     save |-> "none"]

\* TrainingSystem.__init__: GrassDetector() loads the file and teaches its
\* synthetic examples, then AdaptiveLearningSystem() loads the file again
OwnersInit ==
    /\ env \in {e \in Environments : e.workload.kind = "free" /\ e.tick = 0}
    /\ \E file \in {AbsentFile, CorruptFile} :
         LET fresh   == [knowledge_base |-> _load_knowledge_base(file),
                         adaptive_params |-> InitialParams, stats |-> InitialStats,
                         knowledge_file |-> file, raised |-> FALSE, save |-> "none"]
             trained == _initialize_with_training_examples(fresh, 0, env.writable)
         IN  /\ knowledge_base = trained.knowledge_base
             /\ adaptive_params = trained.adaptive_params
             /\ stats = trained.stats
             /\ knowledge_file = trained.knowledge_file
             /\ outcome = [op |-> "learn", raised |-> trained.raised, save |-> trained.save]
             /\ learning_system =
                  [knowledge_base |-> _load_knowledge_base(trained.knowledge_file),
                   adaptive_params |-> InitialParams, stats |-> InitialStats]
    /\ now = Len(create_training_examples)
    /\ calls = 0
    /\ restarts = 0
    /\ persisted = {}
    /\ DetectorIdle
    /\ RestIdle
    /\ ws_endpoint = "webcam"
    /\ WebSocketIdle
    /\ WebcamIdle

\* the examples written to the file so far, after a learning call that
\* numbered its example n and ended as r
Persisted(r, n) ==
    IF r.save = "ok" /\ ~r.raised THEN persisted \cup {n} ELSE persisted

\* TrainingSystem teaches an image: self.learning_system.learn_from_example
TrainingLearns ==
    /\ calls < MaxOwnerCalls
    /\ calls' = calls + 1
    /\ now' = now + 1
    /\ \E ex \in {ExLowGreen, ExRock} :
         LET r == learn_from_example(OwnedSystem(learning_system),
                                     [ex EXCEPT !.region_info = calls + 1],
                                     now + 1, env.writable)
         IN  /\ learning_system' = [knowledge_base |-> r.knowledge_base,
                                    adaptive_params |-> r.adaptive_params,
                                    stats |-> r.stats]
             /\ knowledge_file' = r.knowledge_file
             /\ persisted' = Persisted(r, calls + 1)
    /\ UNCHANGED <<knowledge_base, adaptive_params, stats, env, outcome, restarts>>
    /\ UNCHANGED <<detVars, restVars, wsVars, camVars>>

\* the detector is taught a correction (learn_from_user_feedback):
\* self.adaptive_learning.learn_from_example
DetectorLearns ==
    /\ calls < MaxOwnerCalls
    /\ calls' = calls + 1
    /\ now' = now + 1
    /\ \E ex \in {ExLowGreen, ExRock} :
         LET r == learn_from_example(System, [ex EXCEPT !.region_info = calls + 1],
                                     now + 1, env.writable)
         IN  /\ knowledge_base' = r.knowledge_base
             /\ adaptive_params' = r.adaptive_params
             /\ stats' = r.stats
             /\ knowledge_file' = r.knowledge_file
             /\ outcome' = [op |-> "learn", raised |-> r.raised, save |-> r.save]
             /\ persisted' = Persisted(r, calls + 1)
    /\ UNCHANGED <<learning_system, env, restarts>>
    /\ UNCHANGED <<detVars, restVars, wsVars, camVars>>

\* the process ends and a new one builds its TrainingSystem from the file on
\* disk: GrassDetector() loads the file and, its counters being new, teaches
\* the synthetic examples; AdaptiveLearningSystem() then loads the file
Reconstruct ==
    /\ restarts < MaxRestarts
    /\ restarts' = restarts + 1
    /\ LET fresh   == [knowledge_base |-> _load_knowledge_base(knowledge_file),
                       adaptive_params |-> InitialParams, stats |-> InitialStats,
                       knowledge_file |-> knowledge_file, raised |-> FALSE,
                       save |-> "none"]
           trained == _initialize_with_training_examples(fresh, now, env.writable)
       IN  /\ knowledge_base' = trained.knowledge_base
           /\ adaptive_params' = trained.adaptive_params
           /\ stats' = trained.stats
           /\ knowledge_file' = trained.knowledge_file
           /\ outcome' = [op |-> "learn", raised |-> trained.raised, save |-> trained.save]
           /\ learning_system' =
                [knowledge_base |-> _load_knowledge_base(trained.knowledge_file),
                 adaptive_params |-> InitialParams, stats |-> InitialStats]
    /\ now' = now + Len(create_training_examples)
    /\ UNCHANGED <<env, calls, persisted>>
    /\ UNCHANGED <<detVars, restVars, wsVars, camVars>>

OwnersNext == TrainingLearns \/ DetectorLearns \/ Reconstruct

SpecOwners == OwnersInit /\ [][OwnersNext]_vars

(***************************************************************************)
(* The weighting of two methods on its own.                                *)
(***************************************************************************)
\* confidence scores in [0, 1] and coverages in [0, 100]
Confidences == {0, 1, ConfScale \div 10, ConfScale \div 2, ConfScale - 1, ConfScale}
Coverages   == {0, 1, 200, 5000, 100 * 100}

MethodStats == [confidence_score : Confidences, coverage_percentage : Coverages]

WeightsInit ==
    /\ LearningIdle
    /\ DetectorIdle
    /\ weighed_stats \in {<<>>} \cup {<<a, b>> : a \in MethodStats, b \in MethodStats}
    /\ returned_weights = NoWeights
    /\ TextureIdle
    /\ FusionIdle
    /\ RefineIdle
    /\ ExportIdle
    /\ JobIdle
    /\ OthersIdle

Weigh ==
    /\ returned_weights = NoWeights
    /\ returned_weights' = _calculate_adaptive_weights(weighed_stats)
    /\ UNCHANGED <<weighed_stats, texVars, fusVars, refVars, expVars, jobVars, learnVars, detVars, otherVars>>

SpecWeights == WeightsInit /\ [][Weigh]_vars

(***************************************************************************)
(* The channel weights of the texture classifier on their own: the skip    *)
(* flags are entries of realtime_params, the four channel values are one   *)
(* pixel of the normalised channel images.                                 *)
(***************************************************************************)
ChannelValues == {0, 128, 255}

TextureInputs ==
    [skip_gabor : BOOLEAN, skip_lbp : BOOLEAN, sobel_norm : ChannelValues,
     gabor_norm : ChannelValues, lbp_norm : ChannelValues, variance_norm : ChannelValues]

TextureInit ==
    /\ LearningIdle
    /\ DetectorIdle
    /\ WeightsIdle
    /\ texture_input \in TextureInputs
    /\ texture_output = NoTexture
    /\ FusionIdle
    /\ RefineIdle
    /\ ExportIdle
    /\ JobIdle
    /\ OthersIdle

CombineTexture ==
    /\ texture_output = NoTexture
    /\ LET w == TextureWeights(texture_input.skip_gabor, texture_input.skip_lbp)
       IN  texture_output' =
               [weights |-> w,
                combined_texture |-> CombinedTexture(w, texture_input.sobel_norm,
                                        texture_input.gabor_norm, texture_input.lbp_norm,
                                        texture_input.variance_norm)]
    /\ UNCHANGED <<texture_input, weightVars, fusVars, refVars, expVars, jobVars, learnVars, detVars, otherVars>>

SpecTexture == TextureInit /\ [][CombineTexture]_vars

(***************************************************************************)
(* The weighted fusion of masks on its own: two masks in standard mode,    *)
(* four in precision mode, over a frame whose pixels are of two kinds.     *)
(***************************************************************************)
FusionShapes == {Shape(1, 1), Shape(3, 7), Shape(1, 640), Shape(480, 640)}

\* weights as _calculate_adaptive_weights returns them: positive, summing to 1
FusionWeights(n) ==
    IF n = 2 THEN {[num |-> <<1, 1>>, den |-> 2], [num |-> <<87, 13>>, den |-> 100]}
    ELSE {[num |-> <<1, 1, 1, 1>>, den |-> 4], [num |-> <<4, 3, 2, 1>>, den |-> 10]}

FusionInputs ==
    UNION {[precision : {n = 4}, shape : FusionShapes, split : 0..Cells,
            marks_a : [1..n -> BOOLEAN], marks_b : [1..n -> BOOLEAN],
            weights : FusionWeights(n)] : n \in {2, 4}}

FusionScene(in) == Scene(Grass, Asphalt, in.split, 600)

FusionInit ==
    /\ LearningIdle
    /\ DetectorIdle
    /\ WeightsIdle
    /\ TextureIdle
    /\ fusion_input \in FusionInputs
    /\ fusion_output = NoMask
    /\ RefineIdle
    /\ ExportIdle
    /\ JobIdle
    /\ OthersIdle

Fuse ==
    /\ fusion_output = NoMask
    /\ fusion_output' =
           _weighted_mask_combination(
               Detector(FALSE, fusion_input.precision, InitialColorRanges),
               [i \in 1..Len(fusion_input.marks_a) |->
                   Mask(fusion_input.shape, fusion_input.marks_a[i], fusion_input.marks_b[i])],
               fusion_input.weights, FusionScene(fusion_input))
    /\ UNCHANGED <<fusion_input, weightVars, texVars, refVars, expVars, jobVars, learnVars, detVars, otherVars>>

SpecFusion == FusionInit /\ [][Fuse]_vars

(***************************************************************************)
(* The colour-guided edge refinement on one row of pixels.  A mask and the *)
(* pixels inside the fixed green range are sets of columns.                *)
(***************************************************************************)
RowWidth == 6

Columns == 1..RowWidth

\* cv2.Canny on a row of a binary mask: the gradient is the central
\* difference with the border replicated, and a pixel is an edge when its
\* gradient is not zero, above its left neighbour's and not below its right
\* neighbour's (non-maximum suppression)
Canny(mask) ==
    LET At(i)   == IF Clip(i, 1, RowWidth) \in mask THEN 255 ELSE 0
        Grad(i) == IF i \in Columns THEN Abs(At(i + 1) - At(i - 1)) ELSE 0
    IN  {i \in Columns : Grad(i) > 0 /\ Grad(i) > Grad(i - 1) /\ Grad(i) >= Grad(i + 1)}

\* cv2.dilate with the 5x5 elliptic kernel, on a row: two columns each way
Dilated(edges) == {i \in Columns : \E e \in edges : Abs(i - e) <= 2}

\* _refine_edges_with_color: the refinement area around the mask's edges
RefinementArea(mask) == Dilated(Canny(mask))

\* a variant of _refine_edges_with_color that adds green pixels anywhere
RefineWithAllGreen(mask, green_mask) == mask \cup green_mask

\* _refine_edges_with_color: the mask joined with the green pixels of the
\* refinement area
_refine_edges_with_color(mask, green_mask) ==
    LET refinement_mask == green_mask \cap RefinementArea(mask)
    IN  mask \cup refinement_mask

RefineInit ==
    /\ LearningIdle
    /\ DetectorIdle
    /\ WeightsIdle
    /\ TextureIdle
    /\ FusionIdle
    /\ refine_input \in [mask : SUBSET Columns, green_mask : SUBSET Columns]
    /\ refine_output = NoRefinement
    /\ ExportIdle
    /\ JobIdle
    /\ OthersIdle

Refine ==
    /\ ~refine_output.done
    /\ refine_output' =
           [refinement_area |-> RefinementArea(refine_input.mask),
            refined_mask    |-> _refine_edges_with_color(refine_input.mask,
                                                         refine_input.green_mask),
            done            |-> TRUE]
    /\ UNCHANGED <<refine_input, weightVars, texVars, fusVars, expVars, jobVars, learnVars, detVars, otherVars>>

SpecRefine == RefineInit /\ [][Refine]_vars

(***************************************************************************)
(* Export and import of the learned knowledge of one detector, on a        *)
(* writable disk with the system's own file and one other file.            *)
(***************************************************************************)
MaxExportCalls == 3

FileNames == {OwnFile, ExportFile}

\* knowledge bases a detector may hold: none or one learned example
ExportBases ==
    {FreshBase} \cup {Appended(FreshBase, _extract_learning_features(ex), ex, 1)
                         : ex \in {ExLowGreen, ExHighGreen, ExRock}}

ExportInit ==
    /\ LearningIdle
    /\ DetectorIdle
    /\ WeightsIdle /\ TextureIdle /\ FusionIdle /\ RefineIdle
    /\ exp_knowledge_file = OwnFile
    /\ exp_knowledge_base \in ExportBases
    /\ \E own \in {AbsentFile, SavedFile(exp_knowledge_base)},
          other \in {AbsentFile, CorruptFile} \cup {SavedFile(kb) : kb \in ExportBases} :
            exp_files = [f \in FileNames |-> IF f = OwnFile THEN own ELSE other]
    /\ exp_last = NoExport
    /\ JobIdle
    /\ OthersIdle

\* GrassDetector.export_learned_knowledge(filename)
Export ==
    /\ exp_last.calls < MaxExportCalls
    /\ \E filename \in FileNames, t \in {2, 3} :
         LET r == _save_knowledge_base(exp_knowledge_base, exp_files[exp_knowledge_file],
                                       t, TRUE)
         IN  /\ exp_knowledge_base' = r.knowledge_base
             /\ exp_files' = [exp_files EXCEPT ![exp_knowledge_file] = r.knowledge_file]
             /\ exp_last' = [op |-> "export", filename |-> filename, returned |-> TRUE,
                             exported |-> r.knowledge_base, own |-> exp_knowledge_file,
                             after_export |-> FALSE, calls |-> exp_last.calls + 1]
    /\ UNCHANGED exp_knowledge_file
    /\ UNCHANGED <<weightVars, texVars, fusVars, refVars, jobVars, learnVars, detVars, otherVars>>

\* GrassDetector.import_learned_knowledge(filename)
Import ==
    /\ exp_last.calls < MaxExportCalls
    /\ \E filename \in FileNames :
         LET exists == exp_files[filename].kind # "absent"
         IN  /\ exp_knowledge_file' = IF exists THEN filename ELSE exp_knowledge_file
             /\ exp_knowledge_base' = IF exists THEN _load_knowledge_base(exp_files[filename])
                                      ELSE exp_knowledge_base
             /\ exp_last' = [op |-> "import", filename |-> filename, returned |-> exists,
                             exported |-> exp_last.exported, own |-> exp_last.own,
                             after_export |-> exp_last.op = "export"
                                              /\ exp_last.filename = filename,
                             calls |-> exp_last.calls + 1]
    /\ UNCHANGED exp_files
    /\ UNCHANGED <<weightVars, texVars, fusVars, refVars, jobVars, learnVars, detVars, otherVars>>

ExportNext == Export \/ Import

SpecExport == ExportInit /\ [][ExportNext]_vars

(***************************************************************************)
(* A video job of web/api.py: _process_video_worker runs in a thread of    *)
(* the executor and works on the module's one detector, while the event    *)
(* loop thread serves WebSocket config messages and settings updates, which *)
(* call the same detector's mode setters.  A setter is two assignments,    *)
(* and the threads may be switched between them.                           *)
(***************************************************************************)
MaxJobFrames == 2
MaxRequests  == 2

\* the mode flags a detection reads
Modes(rt, pr) == [realtime_enabled |-> rt, precision_enabled |-> pr]

\* the first assignment of set_precision_mode(True) for quality "2", of
\* set_realtime_mode(True) otherwise: the setter's own flag
SetOwnFlag(quality) ==
    IF quality = "2"
    THEN precision_enabled' = TRUE /\ UNCHANGED realtime_enabled
    ELSE realtime_enabled' = TRUE /\ UNCHANGED precision_enabled

\* the second assignment: the other mode's flag
SetOtherFlag(quality) ==
    IF quality = "2"
    THEN realtime_enabled' = FALSE /\ UNCHANGED precision_enabled
    ELSE precision_enabled' = FALSE /\ UNCHANGED realtime_enabled

VideoInit ==
    /\ LearningIdle
    /\ \E d \in {Modes(FALSE, FALSE), Modes(TRUE, FALSE), Modes(FALSE, TRUE)} :
          /\ realtime_enabled = d.realtime_enabled
          /\ precision_enabled = d.precision_enabled
    /\ grass_color_ranges = InitialColorRanges
    /\ model_available = FALSE
    /\ last = NoCall("init", FALSE, FALSE)
    /\ repeated = NotRepeated
    /\ WeightsIdle /\ TextureIdle /\ FusionIdle /\ RefineIdle /\ ExportIdle
    /\ video_job \in {[NoJob EXCEPT !.quality = q, !.pc = "start"] : q \in {"1", "2"}}
    /\ request = NoRequest
    /\ frame_modes = <<>>
    /\ OthersIdle

\* _process_video_worker: the first assignment of its mode setter
WorkerSetOwn ==
    /\ video_job.pc = "start"
    /\ SetOwnFlag(video_job.quality)
    /\ video_job' = [video_job EXCEPT !.pc = "set_other"]
    /\ UNCHANGED <<request, frame_modes>>
    /\ UNCHANGED <<grass_color_ranges, model_available, last, repeated>>
    /\ UNCHANGED <<weightVars, texVars, fusVars, refVars, expVars, learnVars, otherVars>>

\* _process_video_worker: the second assignment of its mode setter
WorkerSetOther ==
    /\ video_job.pc = "set_other"
    /\ SetOtherFlag(video_job.quality)
    /\ video_job' = [video_job EXCEPT !.pc = "frames"]
    /\ UNCHANGED <<request, frame_modes>>
    /\ UNCHANGED <<grass_color_ranges, model_available, last, repeated>>
    /\ UNCHANGED <<weightVars, texVars, fusVars, refVars, expVars, learnVars, otherVars>>

\* _process_video_worker: cap.read() delivers a frame and
\* detector.detect_grass_areas(frame, method) reads the mode flags
WorkerDetect ==
    /\ video_job.pc = "frames"
    /\ video_job.frame_count < MaxJobFrames
    /\ video_job' = [video_job EXCEPT !.frame_count = @ + 1]
    /\ frame_modes' = Append(frame_modes, Modes(realtime_enabled, precision_enabled))
    /\ UNCHANGED request
    /\ UNCHANGED detVars
    /\ UNCHANGED <<weightVars, texVars, fusVars, refVars, expVars, learnVars, otherVars>>

\* _process_video_worker: cap.read() delivers no frame and the loop ends
WorkerFinish ==
    /\ video_job.pc = "frames"
    /\ video_job' = [video_job EXCEPT !.pc = "done"]
    /\ UNCHANGED <<request, frame_modes>>
    /\ UNCHANGED detVars
    /\ UNCHANGED <<weightVars, texVars, fusVars, refVars, expVars, learnVars, otherVars>>

\* websocket_webcam on a config message, or update_settings: the first
\* assignment of the setter the event loop thread calls
RequestSetOwn ==
    /\ request.pc = "idle"
    /\ request.served < MaxRequests
    /\ \E quality \in {"1", "2"} :
          /\ SetOwnFlag(quality)
          /\ request' = [quality |-> quality, pc |-> "set_other", served |-> request.served + 1]
    /\ UNCHANGED <<video_job, frame_modes>>
    /\ UNCHANGED <<grass_color_ranges, model_available, last, repeated>>
    /\ UNCHANGED <<weightVars, texVars, fusVars, refVars, expVars, learnVars, otherVars>>

\* the second assignment of that setter
RequestSetOther ==
    /\ request.pc = "set_other"
    /\ SetOtherFlag(request.quality)
    /\ request' = [request EXCEPT !.pc = "idle"]
    /\ UNCHANGED <<video_job, frame_modes>>
    /\ UNCHANGED <<grass_color_ranges, model_available, last, repeated>>
    /\ UNCHANGED <<weightVars, texVars, fusVars, refVars, expVars, learnVars, otherVars>>

VideoNext ==
    \/ WorkerSetOwn \/ WorkerSetOther \/ WorkerDetect \/ WorkerFinish
    \/ RequestSetOwn \/ RequestSetOther

SpecVideo == VideoInit /\ [][VideoNext]_vars

(***************************************************************************)
(* Claims about the adaptive learning system.                              *)
(***************************************************************************)
\* C1: after any sequence of learn_from_example calls, and initially, every
\* adaptive parameter is inside its documented range: confidence_boost in
\* [0.5, 3.0], color_sensitivity and texture_weight in [0.5, 2.0],
\* vegetation_threshold in [0.2, 0.7].
C1_ParamsInRange ==
    /\ adaptive_params.confidence_boost >= ParamScale \div 2
    /\ adaptive_params.confidence_boost <= 3 * ParamScale
    /\ adaptive_params.color_sensitivity >= ParamScale \div 2
    /\ adaptive_params.color_sensitivity <= 2 * ParamScale
    /\ adaptive_params.texture_weight >= ParamScale \div 2
    /\ adaptive_params.texture_weight <= 2 * ParamScale
    /\ 10 * adaptive_params.vegetation_threshold >= 2 * ParamScale
    /\ 10 * adaptive_params.vegetation_threshold <= 7 * ParamScale

\* a run in which learning drove color_sensitivity and confidence_boost up to
\* their upper limits and vegetation_threshold down to its lower limit
C1_Witness ==
    /\ outcome.op = "learn"
    /\ adaptive_params.color_sensitivity = 2 * ParamScale
    /\ adaptive_params.confidence_boost = 3 * ParamScale
    /\ 10 * adaptive_params.vegetation_threshold = 2 * ParamScale

\* C2: after every learn_from_example call each of the two knowledge-base
\* lists holds at most max_examples (100) entries.
C2_ListsBounded ==
    knowledge_base.kind = "kb" =>
        /\ Len(knowledge_base.vegetation_patterns) <= max_examples
        /\ Len(knowledge_base.non_vegetation_patterns) <= max_examples

\* more positive examples were learned than fit, and the list was cut back
C2_Witness ==
    /\ outcome.op = "learn"
    /\ stats.positive_examples > max_examples
    /\ Len(knowledge_base.vegetation_patterns) = max_examples

\* C9: creating the learning system never fails because of the file: absent,
\* unreadable or corrupt content (also JSON that is not the expected record)
\* is discarded for a fresh empty base, and later learn_from_example and
\* get_adaptive_confidence_boost calls work on it.
C9_LoadAlwaysRecovers ==
    /\ (restarts = 0 /\ calls = 0 => knowledge_base = FreshBase)
    /\ ~outcome.raised

\* C10: when the file cannot be written, learn_from_example ends as it does
\* with a writable file: the save is skipped without raising, and knowledge
\* base, parameters and counters in memory are those of a successful save;
\* the file keeps its old content.
C10_UnwritableSaveSkipped ==
    /\ \A ex \in Examples, d \in {0, 1} :
         LET failed == learn_from_example(System, ex, now + d, FALSE)
             saved  == learn_from_example(System, ex, now + d, TRUE)
         IN  /\ failed.raised = saved.raised
             /\ failed.knowledge_base = saved.knowledge_base
             /\ failed.adaptive_params = saved.adaptive_params
             /\ failed.stats = saved.stats
             /\ failed.knowledge_file = knowledge_file
    /\ (outcome.save = "skipped" => ~outcome.raised)

\* a learning call whose save was skipped: the example is in memory, the file
\* on disk still holds nothing
C10_Witness ==
    /\ outcome.op = "learn"
    /\ outcome.save = "skipped"
    /\ ~outcome.raised
    /\ stats.examples_learned > 0
    /\ Len(knowledge_base.vegetation_patterns) > 0
    /\ knowledge_file = AbsentFile

\* C13: eviction is oldest-first: after a learn_from_example call each list
\* holds only examples among the 100 learned last, and the example just
\* learned is in its list, also when examples carry the same timestamp.
C13_EvictionOldestFirst ==
    (outcome.op = "learn" /\ ~outcome.raised) =>
        LET all == knowledge_base.vegetation_patterns
                     \o knowledge_base.non_vegetation_patterns
        IN  /\ \E i \in 1..Len(all) : all[i].info = calls
            /\ \A i \in 1..Len(all) : all[i].info > calls - max_examples

\* C14: get_adaptive_confidence_boost compares the prediction with the 20
\* examples of each class that were learned last, also after a list was
\* pruned: every entry in the window it reads was learned after every entry
\* of the list outside the window.
C14_WindowHoldsMostRecent ==
    (/\ outcome.op = "boost" /\ ~outcome.raised
     /\ knowledge_base.vegetation_patterns # <<>>
     /\ ~outcome.prediction.mask_empty) =>
        \A db \in {knowledge_base.vegetation_patterns,
                   knowledge_base.non_vegetation_patterns} :
            \A i, j \in 1..Len(db) :
                (i > Len(db) - 20 /\ j <= Len(db) - 20) => db[i].info > db[j].info

\* C15: from an empty knowledge base, after 10 positive examples, the boost
\* for a prediction with a non-empty mask whose features are similar to the
\* examples is above 1.0.
SimilarToAll(prediction, patterns) ==
    /\ ~prediction.mask_empty
    /\ \A i \in 1..Len(patterns) :
          /\ ~patterns[i].features.error
          /\ 2 * PatternSimilarity(_extract_learning_features(prediction),
                                   patterns[i].features) >= SimScale

TenPositives ==
    /\ outcome.op = "boost"
    /\ ~outcome.raised
    /\ restarts = 0
    /\ calls = 10
    /\ Len(knowledge_base.vegetation_patterns) = 10
    /\ knowledge_base.non_vegetation_patterns = <<>>
    /\ SimilarToAll(outcome.prediction, knowledge_base.vegetation_patterns)

C15_TenPositivesBoost ==
    TenPositives => outcome.boost > ParamScale

\* ten examples of grass and a prediction with the same features: the learned
\* boost of 1.025^10 is doubled
C15_Witness ==
    /\ TenPositives
    /\ env.workload.example = ExLowGreen
    /\ outcome.prediction = ExLowGreen
    /\ adaptive_params.confidence_boost > (125 * ParamScale) \div 100
    /\ outcome.boost = 2 * adaptive_params.confidence_boost

(***************************************************************************)
(* Claims about the grass detector.                                        *)
(***************************************************************************)
\* C3: the mask detect_grass_areas returns has the height and width of the
\* image the caller passed in, for every method, mode and image size.
C3_MaskHasImageShape ==
    (last.op = "detect" /\ ~last.raised) => last.mask.shape = last.image.shape

\* C4: the statistics returned by every detection method, in every mode,
\* have coverage_percentage in [0, 100] and confidence_score in [0, 1]; so
\* have those of the gradient and statistical classifiers on every image.
InRangeStats(st) ==
    /\ 0 <= st.coverage_percentage /\ st.coverage_percentage <= 100 * 100
    /\ 0 <= st.confidence_score /\ st.confidence_score <= ConfScale

C4_StatsInRange ==
    /\ (last.op = "detect" /\ ~last.raised) => InRangeStats(last.stats)
    /\ last.op = "detect" =>
          LET seen == _preprocess_for_precision(Det, last.image)
          IN  /\ InRangeStats(_detect_gradient_patterns(seen).stats)
              /\ InRangeStats(_detect_statistical_patterns(seen).stats)

\* the network is certain, the classifiers agree with it, and the learned
\* boost would lift the confidence above its ceiling
C4_Witness ==
    /\ last.op = "detect"
    /\ last.stats.method = "deeplearning_enhanced"
    /\ last.stats.confidence_score = (95 * ConfScale) \div 100
    /\ adaptive_params.confidence_boost > ParamScale
    /\ last.stats.coverage_percentage = 100 * 100

\* C5: a detection call repeated with the same image, method and mode flags,
\* with nothing in between, returns the mask of the call before.
C5_RepeatedCallSameMask ==
    repeated.valid => last.mask = repeated.mask

C8_StatsCarryScenarioFlags ==
    (last.op = "detect" /\ ~last.raised) =>
        /\ "scenario_flags" \in last.stats.keys
        /\ _detect_problematic_scenarios(last.mask, last.image.scene).dense_detection
             = (10 * last.stats.grass_pixels > 8 * last.stats.total_pixels)
        /\ _detect_problematic_scenarios(last.mask, last.image.scene).sparse_detection
             = (20 * last.stats.grass_pixels < last.stats.total_pixels)

\* C11: a classifier that raises during the fused detection is dropped from
\* the fusion: the fused call still returns, with a mask built from the
\* classifiers that are left.
C11_FusionSurvivesClassifierError ==
    (last.op = "detect" /\ last.method = "combined") =>
        /\ ~last.raised
        /\ last.mask # NoMask

\* C12: a detect_grass_areas call with the model-based method and no usable
\* model (none loaded, or the prediction raising) never surfaces an error and
\* returns exactly the mask and statistics of the combined method on the
\* same image.
C12_FallbackNeverSurfacesError ==
    [][(/\ last'.op = "detect"
        /\ last'.method = "deeplearning"
        /\ ~model_available \/ last'.predict_raises)
          => LET r == detect_grass_areas(Det, last'.image, "combined", model_available,
                                         FALSE, adaptive_params.confidence_boost)
             IN  /\ ~last'.raised
                 /\ last'.mask = r.mask
                 /\ last'.stats = r.stats]_vars

\* C19: when a call of set_realtime_mode or set_precision_mode has returned,
\* whatever its argument and whatever calls came before, the two flags are
\* not both enabled, and a call that enabled its mode left the other mode
\* disabled.
C19_SettersLeaveOneModeAtMost ==
    [][(last'.op \in {"set_realtime_mode", "set_precision_mode"}) =>
          /\ ~(realtime_enabled' /\ precision_enabled')
          /\ (last'.op = "set_realtime_mode" /\ realtime_enabled') => ~precision_enabled'
          /\ (last'.op = "set_precision_mode" /\ precision_enabled') => ~realtime_enabled']_vars

\* realtime mode was on and set_precision_mode(True) replaced it
C19_Witness ==
    /\ last.op = "set_precision_mode"
    /\ last.before.realtime_enabled
    /\ precision_enabled
    /\ ~realtime_enabled

\* C20: a detect_grass_areas call that returns leaves the realtime and
\* precision flags as they were before the call, for every method.
C20_DetectionKeepsModeFlags ==
    (last.op = "detect" /\ ~last.raised) =>
        /\ realtime_enabled = last.before.realtime_enabled
        /\ precision_enabled = last.before.precision_enabled

(***************************************************************************)
(* Claims about the WebSocket handlers.                                    *)
(***************************************************************************)
\* C16: a frame that arrives while an inference is in flight on the
\* connection is discarded: no inference is ever started on it and no result
\* is sent for it.
C16_BusyFramesDiscarded ==
    /\ ws_pc = "inference" => ~ws_frame.during_inference
    /\ \A i \in 1..Len(ws_results) : ~ws_results[i].during_inference

(***************************************************************************)
(* Claims about the webcam loop.                                           *)
(***************************************************************************)
\* C17: the capture thread writes the slot and the processing loop reads it
\* only while holding frame_lock; the slot holds the newest frame written and
\* nothing else; the loop does not hold the lock while it detects, renders or
\* reads the keyboard, so a capture thread waiting to write finds the lock
\* free then.
C17_SlotGuardedAndNeverBlockedByDetection ==
    /\ capture_pc = "write" => frame_lock = "capture"
    /\ loop_pc \in {"warmup_locked", "loop_locked"} => frame_lock = "loop"
    /\ loop_pc \in {"detect", "keys"} => frame_lock # "loop"
    /\ (capture_pc = "acquire" /\ loop_pc \in {"detect", "keys"}) => frame_lock = "free"
    /\ capture_pc \in {"read", "done"} => latest_frame = capture_frame
    /\ frame <= latest_frame

\* the capture thread holds the lock and writes a newer frame while the loop
\* detects on the frame it took before
C17_Witness ==
    /\ loop_pc = "detect"
    /\ capture_pc = "write"
    /\ frame_lock = "capture"
    /\ frame >= 1
    /\ capture_frame > frame
    /\ latest_frame = frame

(***************************************************************************)
(* Claims about the owners of the knowledge file.                          *)
(***************************************************************************)
\* C18: an example that a learning call wrote to the knowledge file stays in
\* the file: no later save from another learning system's older copy of the
\* knowledge base removes it.
C18_PersistedExampleStays ==
    \A n \in persisted :
        \E i \in 1..Len(knowledge_file.content.vegetation_patterns
                          \o knowledge_file.content.non_vegetation_patterns) :
            (knowledge_file.content.vegetation_patterns
               \o knowledge_file.content.non_vegetation_patterns)[i].info = n

\* C21: a detector constructed over a knowledge file that already holds
\* examples adds nothing to either list: after the restart the two lists are
\* the lists of the file.
C21_RestartAddsNothing ==
    [][(/\ restarts' = restarts + 1
        /\ knowledge_file.kind = "json"
        /\ knowledge_file.content.vegetation_patterns
              \o knowledge_file.content.non_vegetation_patterns # <<>>)
          => /\ knowledge_base'.vegetation_patterns
                  = knowledge_file.content.vegetation_patterns
             /\ knowledge_base'.non_vegetation_patterns
                  = knowledge_file.content.non_vegetation_patterns]_vars

(***************************************************************************)
(* Claims about the weighting.                                             *)
(***************************************************************************)
Weighed == Len(weighed_stats) = 2 /\ returned_weights # NoWeights

\* C6: of two weighted methods, one that reports 0% coverage gets a weight
\* of at most 1/2, whatever the two confidence scores are.
C6_ZeroCoverageAtMostHalf ==
    Weighed =>
        \A i \in 1..2 :
            weighed_stats[i].coverage_percentage = 0
                => 2 * returned_weights.num[i] <= returned_weights.den

\* C6 (amended): the weight of a method that reports 0% coverage never
\* exceeds its share of the two confidence scores, so it is at most 1/2
\* whenever its confidence is not above the other method's.
C6_ZeroCoverageAtMostConfidenceShare ==
    Weighed =>
        \A i \in 1..2 :
            LET mine   == weighed_stats[i].confidence_score
                theirs == weighed_stats[3 - i].confidence_score
            IN  weighed_stats[i].coverage_percentage = 0
                    => /\ ~Exceeds(returned_weights.num[i], mine + theirs,
                                   returned_weights.den, mine)
                       /\ mine <= theirs => 2 * returned_weights.num[i] <= returned_weights.den

\* a confident method without coverage next to an equally confident one with
\* full coverage
C6_Witness ==
    /\ Weighed
    /\ weighed_stats[1].coverage_percentage = 0
    /\ weighed_stats[1].confidence_score = ConfScale
    /\ weighed_stats[2].coverage_percentage = 100 * 100
    /\ weighed_stats[2].confidence_score = ConfScale
    /\ 5 * returned_weights.num[1] = 2 * returned_weights.den

\* C24: within one detection call no image is contrast-equalized twice, the
\* combined pipeline in precision mode included: the statistics of a call
\* that returned count at most one equalization of the pixels they describe.
C24_EqualizedAtMostOnce ==
    (last.op = "detect" /\ ~last.raised) => last.stats.equalizations <= 1

(***************************************************************************)
(* Claims about the texture classifier's channels.                         *)
(***************************************************************************)
SumOfWeights(w) ==
    w.sobel_contribution + w.gabor_contribution + w.lbp_contribution + w.variance_contribution

\* C22: for every combination of the skip flags the four channel weights
\* (gradient, filter bank, local binary pattern, variance) sum to 1.0, and
\* with the filter bank and the pattern channel both active they are 0.5,
\* 0.3, 0.2 and 0.0.
C22_ChannelWeightsSumToOne ==
    texture_output # NoTexture =>
        /\ SumOfWeights(texture_output.weights) = 10
        /\ (~texture_input.skip_gabor /\ ~texture_input.skip_lbp) =>
               texture_output.weights =
                   [sobel_contribution |-> 5, gabor_contribution |-> 3,
                    lbp_contribution |-> 2, variance_contribution |-> 0]

\* C23: a texture detection skips the filter-bank and the pattern channel
\* exactly when realtime mode is the enabled mode; with realtime disabled
\* both channels contribute.
C23_ChannelsSkippedOnlyInRealtime ==
    (last.op = "detect" /\ ~last.raised /\ last.stats.method = "texture_based") =>
        /\ (last.stats.gabor_contribution = 0) <=> last.before.realtime_enabled
        /\ (last.stats.lbp_contribution = 0) <=> last.before.realtime_enabled

(***************************************************************************)
(* Claims about the adaptation of the vegetation threshold.                *)
(***************************************************************************)
\* the distance between a threshold and an example's normalised mean hue
\* (mean_hue / 180), in 1/(180 * ParamScale)
HueDistance(threshold, ex) == Abs(180 * threshold - ParamScale * ex.mean_hue)

\* a positive example whose normalised mean hue lies in the green band ]0.2, 0.6[
PositiveInGreenBand(ex) ==
    /\ ex.is_vegetation
    /\ ~_extract_learning_features(ex).error
    /\ _extract_learning_features(ex).has_hsv
    /\ 5 * ex.mean_hue > 180
    /\ 5 * ex.mean_hue < 3 * 180

\* C25: learning a positive example whose normalised mean hue lies in the
\* green band moves vegetation_threshold toward that hue: its distance to the
\* hue is never larger after the update than before, and it stays in [0.2, 0.7].
C25_ThresholdMovesTowardHue ==
    [][(/\ calls' = calls + 1
        /\ env.workload.kind = "repeat"
        /\ PositiveInGreenBand(env.workload.example)
        /\ ~outcome'.raised)
          => /\ HueDistance(adaptive_params'.vegetation_threshold, env.workload.example)
                  <= HueDistance(adaptive_params.vegetation_threshold, env.workload.example)
             /\ 10 * adaptive_params'.vegetation_threshold >= 2 * ParamScale
             /\ 10 * adaptive_params'.vegetation_threshold <= 7 * ParamScale]_vars

(***************************************************************************)
(* Claims about the weighted fusion.                                       *)
(***************************************************************************)
\* the pixels a fused mask marks
FusedPixels == GrassPixels(fusion_output, FusionScene(fusion_input))

\* every pixel of the frame has the same weighted sum
SameScoreEverywhere ==
    \/ fusion_input.split = 0
    \/ fusion_input.split = Cells
    \/ WeightedSum(fusion_input.marks_a, fusion_input.weights)
         = WeightedSum(fusion_input.marks_b, fusion_input.weights)

\* C26: in precision mode the weighted fusion marks a pixel only when its
\* combined score is strictly above the frame's 70th percentile: of n pixels
\* at most ceil(0.3 * (n - 1)) are marked before post-processing, and none
\* when all pixels have the same combined score.
C26_FusionMarksAboveP70Only ==
    (fusion_output # NoMask /\ fusion_input.precision) =>
        /\ 10 * FusedPixels <= 3 * (Pixels(fusion_input.shape) - 1) + 9
        /\ SameScoreEverywhere => FusedPixels = 0

\* a precision-mode fusion that marked as many pixels as the bound allows
C26_Witness ==
    /\ fusion_output # NoMask
    /\ fusion_input.precision
    /\ FusedPixels > 0
    /\ 10 * FusedPixels > 3 * (Pixels(fusion_input.shape) - 1)

(***************************************************************************)
(* Claims about the edge refinement.                                       *)
(***************************************************************************)
\* C27: the colour-guided edge refinement never removes a pixel of its input
\* mask, and every pixel it adds lies inside the dilated edge ring of the
\* input mask.
C27_RefinementOnlyAddsInsideRing ==
    refine_output.done =>
        /\ refine_input.mask \subseteq refine_output.refined_mask
        /\ (refine_output.refined_mask \ refine_input.mask) \subseteq refine_output.refinement_area

\* a refinement that added a green pixel of the ring and left a green pixel
\* outside the ring alone
C27_Witness ==
    /\ refine_output.done
    /\ refine_output.refined_mask \ refine_input.mask # {}
    /\ refine_input.green_mask \ refine_output.refined_mask # {}

(***************************************************************************)
(* Claims about the colour classifier's statistics.                        *)
(***************************************************************************)
\* C28: the colour classifier's clahe_applied is true exactly when the
\* equalization was applied in that call, that is when the measured contrast
\* of the image was below the threshold.
C28_ClaheAppliedReportsEqualization ==
    (last.op = "detect" /\ ~last.raised /\ last.stats.method = "color_based") =>
        (last.stats.clahe_applied <=> last.stats.equalizations > 0)

(***************************************************************************)
(* Claims about export and import of the learned knowledge.                *)
(***************************************************************************)
\* C29: export_learned_knowledge(f) writes the current knowledge base to the
\* file f, and an import_learned_knowledge(f) that follows succeeds and
\* leaves the knowledge base equal to what was exported, for an f that is
\* not the system's own knowledge file.
C29_ExportThenImportRoundTrips ==
    (exp_last.op = "import" /\ exp_last.after_export /\ exp_last.filename # exp_last.own) =>
        /\ exp_last.returned
        /\ exp_knowledge_base = exp_last.exported
        /\ exp_files[exp_last.filename] = SavedFile(exp_last.exported)

(***************************************************************************)
(* Claims about the video job.                                             *)
(***************************************************************************)
\* the mode a job of a given quality asks for
JobModes(quality) == Modes(quality # "2", quality = "2")

\* C30: detection on the shared detector is safe from the worker thread: no
\* concurrent request changes the mode of a video job's frames, so every
\* frame of the job is detected in the job's quality mode, and no detection
\* finds both modes enabled.
C30_JobFramesKeepJobMode ==
    \A i \in 1..Len(frame_modes) :
        /\ ~(frame_modes[i].realtime_enabled /\ frame_modes[i].precision_enabled)
        /\ frame_modes[i] = JobModes(video_job.quality)

====
